---- MODULE Spec2Model ----
(***************************************************************************)
(* hal-elements: the transaction builder (cmd/tx.rs), the confidential     *)
(* field decoders, and the PSET edit / merge commands (cmd/pset.rs).       *)
(*                                                                         *)
(* The program is a command line tool: every run takes its arguments,      *)
(* runs one command to completion or to a panic, and exits.  A panic is    *)
(* modelled as a result Err(msg) carrying the panic message of the code.   *)
(***************************************************************************)
EXTENDS Integers, Sequences, FiniteSets, TLC

VARIABLES
    pc,       \* position of the run: "start", then "done" or "failed"
    info,     \* the arguments of the run: a declarative record, or the matches
    result,   \* what the run returned so far: Ok(value) or Err(panic message)
    pset,     \* the PSET held in memory by a pset command
    idx,      \* exec_merge: the enumerate() counter of the loop
    out       \* what the run has written: stdout text and file writes, in order

vars == <<pc, info, result, pset, idx, out>>

----------------------------------------------------------------------------
(* Option<T> is a sequence of length at most one. *)
None == <<>>
Some(x) == <<x>>
IsSome(o) == Len(o) > 0
Unwrap(o) == o[1]
Opt(S) == {None} \cup {Some(x) : x \in S}

(* Result of a function that may panic. *)
Ok(v) == [ok |-> TRUE, val |-> v, err |-> ""]
Err(msg) == [ok |-> FALSE, val |-> <<>>, err |-> msg]

Rep(n, b) == [i \in 1..n |-> b]

(* The tx commands hold no PSET and write only once built. *)
NoPset == pset = <<>> /\ idx = 0 /\ out = <<>>

----------------------------------------------------------------------------
(* Confidential fields: src/confidential.rs and cmd/tx.rs *)

ConfidentialType == {"Null", "Explicit", "Confidential"}

(* Commitment byte strings met in records: well formed for a value (prefix *)
(* 8/9), for an asset (prefix 10/11), for a nonce (prefix 2/3), and one    *)
(* that is too short for any of them.                                      *)
ValueCommitment == <<8>> \o Rep(32, 1)
AssetCommitment == <<10>> \o Rep(32, 1)
NonceCommitment == <<2>> \o Rep(32, 1)
ShortCommitment == <<8, 1, 1>>
Commitments == {ValueCommitment, AssetCommitment, NonceCommitment, ShortCommitment}
(* A public key in its 65 byte uncompressed form: 4, X, Y. *)
UncompressedKey == <<4>> \o Rep(32, 1) \o Rep(32, 5)
NonceCommitments == Commitments \cup {UncompressedKey}

Values == {0, 5}
AssetIds == {"asset_a", "asset_b"}
NonceHashes == {[bytes |-> Rep(32, 7)]}

ConfidentialValueInfo ==
    [type_ : ConfidentialType, value : Opt(Values), commitment : Opt(Commitments)]
ConfidentialAssetInfo ==
    [type_ : ConfidentialType, asset : Opt(AssetIds), commitment : Opt(Commitments)]
ConfidentialNonceInfo ==
    [type_ : ConfidentialType, nonce : Opt(NonceHashes),
     commitment : Opt(NonceCommitments)]

(* The decoded tri-state value: tag and payload. *)
Null == [tag |-> "Null", v |-> <<>>]
Explicit(x) == [tag |-> "Explicit", v |-> <<x>>]
Confidential(c) == [tag |-> "Confidential", v |-> <<c>>]

(* secp256k1_zkp ...::from_slice: 33 bytes with the prefix of the kind. *)
from_slice(bytes, prefixes) ==
    IF Len(bytes) = 33 /\ bytes[1] \in prefixes THEN Some(bytes) ELSE None

(* secp256k1_zkp::PublicKey::from_slice takes the 33 byte compressed form   *)
(* (2 or 3, X) and the 65 byte uncompressed form (4, X, Y); the key it      *)
(* yields is held as what serialize() gives for it, the compressed form.    *)
PublicKey_from_slice(bytes) ==
    IF Len(bytes) = 33 /\ bytes[1] \in {2, 3} THEN Some(bytes)
    ELSE IF Len(bytes) = 65 /\ bytes[1] = 4
         THEN Some(<<2 + (bytes[65] % 2)>> \o SubSeq(bytes, 2, 33))
         ELSE None

(* Variant of the value decoder that also rejects a populated payload the  *)
(* tag does not select.                                                    *)
create_confidential_value_strict(i) ==
    IF \/ i.type_ = "Null" /\ (IsSome(i.value) \/ IsSome(i.commitment))
       \/ i.type_ = "Explicit" /\ IsSome(i.commitment)
       \/ i.type_ = "Confidential" /\ IsSome(i.value)
    THEN Err("payload disagrees with type")
    ELSE CASE i.type_ = "Null" -> Ok(Null)
           [] i.type_ = "Explicit" ->
                 IF IsSome(i.value) THEN Ok(Explicit(Unwrap(i.value)))
                 ELSE Err("Field \"value\" is required for explicit values.")
           [] i.type_ = "Confidential" ->
                 LET comm == from_slice(Unwrap(i.commitment), {8, 9})
                 IN IF IsSome(comm) THEN Ok(Confidential(Unwrap(comm)))
                    ELSE Err("Invalid Confidential commitment")

create_confidential_value(i) ==
    CASE i.type_ = "Null" -> Ok(Null)
      [] i.type_ = "Explicit" ->
            IF IsSome(i.value) THEN Ok(Explicit(Unwrap(i.value)))
            ELSE Err("Field \"value\" is required for explicit values.")
      [] i.type_ = "Confidential" ->
            IF ~IsSome(i.commitment) THEN Err("Missing commitment")
            ELSE LET comm == from_slice(Unwrap(i.commitment), {8, 9})
                 IN IF IsSome(comm) THEN Ok(Confidential(Unwrap(comm)))
                    ELSE Err("Invalid Confidential commitment")

(* Variant of the asset decoder that takes any 33 byte point for a         *)
(* generator.                                                              *)
create_confidential_asset_any_point(i) ==
    CASE i.type_ = "Null" -> Ok(Null)
      [] i.type_ = "Explicit" ->
            IF IsSome(i.asset) THEN Ok(Explicit(Unwrap(i.asset)))
            ELSE Err("Field \"asset\" is required for explicit assets.")
      [] i.type_ = "Confidential" ->
            IF ~IsSome(i.commitment) THEN Err("Missing asset commitment")
            ELSE LET gen == from_slice(Unwrap(i.commitment), {2, 3, 8, 9, 10, 11})
                 IN IF IsSome(gen) THEN Ok(Confidential(Unwrap(gen)))
                    ELSE Err("Invalid asset commitment")

create_confidential_asset(i) ==
    CASE i.type_ = "Null" -> Ok(Null)
      [] i.type_ = "Explicit" ->
            IF IsSome(i.asset) THEN Ok(Explicit(Unwrap(i.asset)))
            ELSE Err("Field \"asset\" is required for explicit assets.")
      [] i.type_ = "Confidential" ->
            IF ~IsSome(i.commitment) THEN Err("Missing asset commitment")
            ELSE LET gen == from_slice(Unwrap(i.commitment), {10, 11})
                 IN IF IsSome(gen) THEN Ok(Confidential(Unwrap(gen)))
                    ELSE Err("Invalid asset commitment")

create_confidential_nonce(i) ==
    CASE i.type_ = "Null" -> Ok(Null)
      [] i.type_ = "Explicit" ->
            IF IsSome(i.nonce) THEN Ok(Explicit(Unwrap(i.nonce).bytes))
            ELSE Err("Field \"nonce\" is required for explicit nonces.")
      [] i.type_ = "Confidential" ->
            IF ~IsSome(i.commitment) THEN Err("Missing nonce commitment")
            ELSE LET comm == PublicKey_from_slice(Unwrap(i.commitment))
                 IN IF IsSome(comm) THEN Ok(Confidential(Unwrap(comm)))
                    ELSE Err("Invalid Nonce Pubkey")

----------------------------------------------------------------------------
(* Specification of the confidential field decoders: one record, decoded. *)

InitConf ==
    /\ pc = "start"
    /\ info \in ([kind : {"value"}, rec : ConfidentialValueInfo]
                 \cup [kind : {"asset"}, rec : ConfidentialAssetInfo]
                 \cup [kind : {"nonce"}, rec : ConfidentialNonceInfo])
    /\ result = Err("")
    /\ NoPset

Finish(r) ==
    /\ result' = r
    /\ pc' = IF r.ok THEN "done" ELSE "failed"
    /\ UNCHANGED <<info, pset, idx, out>>

DecodeValue ==
    /\ pc = "start" /\ info.kind = "value"
    /\ Finish(create_confidential_value(info.rec))

DecodeAsset ==
    /\ pc = "start" /\ info.kind = "asset"
    /\ Finish(create_confidential_asset(info.rec))

DecodeNonce ==
    /\ pc = "start" /\ info.kind = "nonce"
    /\ Finish(create_confidential_nonce(info.rec))

NextConf == DecodeValue \/ DecodeAsset \/ DecodeNonce

SpecConf == InitConf /\ [][NextConf]_vars

(* The scalar payload of a record (value / asset / nonce) and the payload   *)
(* its tag selects.                                                         *)
Scalar(i) ==
    CASE i.kind = "value" -> i.rec.value
      [] i.kind = "asset" -> i.rec.asset
      [] i.kind = "nonce" -> i.rec.nonce

CommitmentPrefixes(kind) ==
    CASE kind = "value" -> {8, 9}
      [] kind = "asset" -> {10, 11}
      [] kind = "nonce" -> {2, 3}

PayloadDisagreesWithTag(i) ==
    \/ i.rec.type_ = "Null" /\ (IsSome(Scalar(i)) \/ IsSome(i.rec.commitment))
    \/ i.rec.type_ = "Explicit" /\ IsSome(i.rec.commitment)
    \/ i.rec.type_ = "Confidential" /\ IsSome(Scalar(i))

(* The bytes are a point to the parser of the kind: 33 bytes with a prefix *)
(* of the kind, or for a nonce also an uncompressed public key.            *)
IsPoint(kind, bytes) ==
    \/ Len(bytes) = 33 /\ bytes[1] \in CommitmentPrefixes(kind)
    \/ kind = "nonce" /\ Len(bytes) = 65 /\ bytes[1] = 4

(* What serialize() gives for the point parsed from the bytes. *)
PointBytes(bytes) ==
    IF Len(bytes) = 65 THEN <<2 + (bytes[65] % 2)>> \o SubSeq(bytes, 2, 33)
    ELSE bytes

SelectedPayloadUsable(i) ==
    \/ i.rec.type_ = "Null"
    \/ i.rec.type_ = "Explicit" /\ IsSome(Scalar(i))
    \/ /\ i.rec.type_ = "Confidential"
       /\ IsSome(i.rec.commitment)
       /\ IsPoint(i.kind, Unwrap(i.rec.commitment))

Decoded == pc \in {"done", "failed"}

(* C5, as stated: every record whose populated payload disagrees with its   *)
(* tag is rejected by the decoder.                                          *)
C5_RejectsDisagreeingPayload ==
    (Decoded /\ PayloadDisagreesWithTag(info)) => ~result.ok

(* C5, amended: the decoder reads only the payload its tag selects.  A      *)
(* record is accepted exactly when that payload is present (and, for        *)
(* Confidential, is a point to the parser of the kind), and the payload     *)
(* field the tag does not select has no influence on the decoded value.     *)
C5_OnlySelectedPayloadRead ==
    Decoded =>
        /\ result.ok <=> SelectedPayloadUsable(info)
        /\ result.ok =>
              result.val.v =
                 CASE info.rec.type_ = "Null" -> <<>>
                   [] info.rec.type_ = "Explicit" ->
                         IF info.kind = "nonce" THEN <<Unwrap(Scalar(info)).bytes>>
                         ELSE Scalar(info)
                   [] info.rec.type_ = "Confidential" ->
                         <<PointBytes(Unwrap(info.rec.commitment))>>

(* C5 witness: a record with tag Null and a value populated was accepted.   *)
C5_Witness ==
    /\ pc = "done"
    /\ info.kind = "value"
    /\ info.rec.type_ = "Null"
    /\ IsSome(info.rec.value)

----------------------------------------------------------------------------
(* Transaction inputs: cmd/tx.rs, create_input and what it calls *)

(* An outpoint in text is "<txid hex>:<vout decimal>", here the sequence    *)
(* of its three parts; a text without the colon does not parse.             *)
Txids == {"txid_a", "txid_b"}
Vouts == {0, 1}
TxidHex == [h \in {"aa", "bb"} |-> IF h = "aa" THEN "txid_a" ELSE "txid_b"]
VoutDec == [d \in {"0", "1"} |-> IF d = "0" THEN 0 ELSE 1]
OutPoint(t, n) == [txid |-> t, vout |-> n]

OutPointStr_parse(s) ==
    IF /\ Len(s) = 3
       /\ s[2] = ":"
       /\ s[1] \in DOMAIN TxidHex
       /\ s[3] \in DOMAIN VoutDec
    THEN Some(OutPoint(TxidHex[s[1]], VoutDec[s[3]]))
    ELSE None

(* Variant that takes the prevout string without comparing the two. *)
outpoint_from_input_info_unchecked(input) ==
    LET op1 == IF IsSome(input.prevout)
               THEN OutPointStr_parse(Unwrap(input.prevout))
               ELSE None
    IN IF IsSome(input.prevout) /\ ~IsSome(op1) THEN Err("invalid prevout format")
       ELSE IF IsSome(input.txid) /\ ~IsSome(input.vout)
       THEN Err("\"txid\" field given in input without \"vout\" field")
       ELSE IF IsSome(op1) THEN Ok(Unwrap(op1))
       ELSE IF IsSome(input.txid)
       THEN Ok(OutPoint(Unwrap(input.txid), Unwrap(input.vout)))
       ELSE Err("No previous output provided in input.")

outpoint_from_input_info(input) ==
    LET op1 == IF IsSome(input.prevout)
               THEN OutPointStr_parse(Unwrap(input.prevout))
               ELSE None
    IN IF IsSome(input.prevout) /\ ~IsSome(op1) THEN Err("invalid prevout format")
       ELSE IF IsSome(input.txid) /\ ~IsSome(input.vout)
       THEN Err("\"txid\" field given in input without \"vout\" field")
       ELSE LET op2 == IF IsSome(input.txid)
                       THEN Some(OutPoint(Unwrap(input.txid), Unwrap(input.vout)))
                       ELSE None
            IN CASE IsSome(op1) /\ IsSome(op2) ->
                       IF Unwrap(op1) # Unwrap(op2)
                       THEN Err("Conflicting prevout information in input.")
                       ELSE Ok(Unwrap(op1))
                 [] IsSome(op1) /\ ~IsSome(op2) -> Ok(Unwrap(op1))
                 [] ~IsSome(op1) /\ IsSome(op2) -> Ok(Unwrap(op2))
                 [] ~IsSome(op1) /\ ~IsSome(op2) ->
                       Err("No previous output provided in input.")

bytes_32(bytes) == IF Len(bytes) # 32 THEN None ELSE Some(bytes)

(* secp256k1_zkp::Tweak::from_slice: 32 bytes (below the group order). *)
Tweak_from_slice(bytes) == IF Len(bytes) = 32 THEN Some(bytes) ELSE None

AssetIssuance_default ==
    [asset_blinding_nonce |-> Rep(32, 0), asset_entropy |-> Rep(32, 0),
     amount |-> Null, inflation_keys |-> Null]

create_asset_issuance(i) ==
    IF ~IsSome(i.asset_blinding_nonce)
    THEN Err("Field \"asset_blinding_nonce\" is required for asset issuances.")
    ELSE IF ~IsSome(Tweak_from_slice(Unwrap(i.asset_blinding_nonce)))
    THEN Err("Invalid size of \"asset_blinding_nonce\" or blinding nonce out of range")
    ELSE IF ~IsSome(i.asset_entropy)
    THEN Err("Field \"asset_entropy\" is required for asset issuances.")
    ELSE IF ~IsSome(bytes_32(Unwrap(i.asset_entropy)))
    THEN Err("Invalid size of \"asset_entropy\".")
    ELSE IF ~IsSome(i.amount)
    THEN Err("Field \"amount\" is required for asset issuances.")
    ELSE LET amount == create_confidential_value(Unwrap(i.amount))
         IN IF ~amount.ok THEN amount
            ELSE IF ~IsSome(i.inflation_keys)
            THEN Err("Field \"inflation_keys\" is required for asset issuances.")
            ELSE LET keys == create_confidential_value(Unwrap(i.inflation_keys))
                 IN IF ~keys.ok THEN keys
                    ELSE Ok([asset_blinding_nonce |-> Unwrap(i.asset_blinding_nonce),
                             asset_entropy |-> Unwrap(i.asset_entropy),
                             amount |-> amount.val,
                             inflation_keys |-> keys.val])

create_script_sig(ss) ==
    IF IsSome(ss.hex) THEN Ok(Unwrap(ss.hex))
    ELSE IF IsSome(ss.asm) THEN Err("Decoding script assembly is not yet supported.")
    ELSE Err("No scriptSig info provided.")

(* elements::encode::serialize of the parts of the pegin witness. *)
serialize_u64(v) ==
    [i \in 1..8 |-> IF i <= 3 THEN (v \div (256 ^ (i - 1))) % 256
                    ELSE IF i = 4 THEN (v \div 16777216) % 256
                    ELSE 0]   \* amounts of the model are below 2^31
serialize_hash(h) == h.bytes
serialize_bytes(b) == <<Len(b)>> \o b
AssetId_bytes(a) == IF a = "asset_a" THEN Rep(32, 161) ELSE Rep(32, 162)

(* Variant that pushes the asset before the value. *)
create_pegin_witness_swapped(pd, prevout) ==
    LET parsed == OutPointStr_parse(pd.outpoint)
        asset == create_confidential_asset(pd.asset)
    IN IF ~IsSome(parsed) THEN Err("Invalid outpoint in field \"pegin_data\".")
       ELSE IF OutPoint(prevout.txid, prevout.vout) # Unwrap(parsed)
       THEN Err("Outpoint in \"pegin_data\" does not correspond to input value.")
       ELSE IF ~asset.ok THEN asset
       ELSE IF asset.val.tag # "Explicit"
       THEN Err("Asset in \"pegin_data\" should be explicit.")
       ELSE Ok(<<AssetId_bytes(Unwrap(asset.val.v)),
                 serialize_u64(pd.value),
                 serialize_hash(pd.genesis_hash),
                 serialize_bytes(pd.claim_script),
                 serialize_bytes(pd.mainchain_tx_hex),
                 serialize_bytes(pd.merkle_proof)>>)

(* Variant that does not compare the pegin outpoint with the prevout. *)
create_pegin_witness_any_outpoint(pd, prevout) ==
    LET parsed == OutPointStr_parse(pd.outpoint)
        asset == create_confidential_asset(pd.asset)
    IN IF ~IsSome(parsed) THEN Err("Invalid outpoint in field \"pegin_data\".")
       ELSE IF ~asset.ok THEN asset
       ELSE IF asset.val.tag # "Explicit"
       THEN Err("Asset in \"pegin_data\" should be explicit.")
       ELSE Ok(<<serialize_u64(pd.value),
                 AssetId_bytes(Unwrap(asset.val.v)),
                 serialize_hash(pd.genesis_hash),
                 serialize_bytes(pd.claim_script),
                 serialize_bytes(pd.mainchain_tx_hex),
                 serialize_bytes(pd.merkle_proof)>>)

create_pegin_witness(pd, prevout) ==
    LET btc_prev == OutPoint(prevout.txid, prevout.vout)
        parsed == OutPointStr_parse(pd.outpoint)
    IN IF ~IsSome(parsed) THEN Err("Invalid outpoint in field \"pegin_data\".")
       ELSE IF btc_prev # Unwrap(parsed)
       THEN Err("Outpoint in \"pegin_data\" does not correspond to input value.")
       ELSE LET asset == create_confidential_asset(pd.asset)
            IN IF ~asset.ok THEN asset
               ELSE IF asset.val.tag # "Explicit"
               THEN Err("Asset in \"pegin_data\" should be explicit.")
               ELSE Ok(<<serialize_u64(pd.value),
                         AssetId_bytes(Unwrap(asset.val.v)),
                         serialize_hash(pd.genesis_hash),
                         serialize_bytes(pd.claim_script),
                         serialize_bytes(pd.mainchain_tx_hex),
                         serialize_bytes(pd.merkle_proof)>>)

(* secp256k1_zkp::RangeProof::from_slice accepts the well formed proofs. *)
GoodRangeProof == <<96, 51, 2>>
BadRangeProof == <<0>>
RangeProof_from_slice(bytes) == IF bytes = GoodRangeProof THEN Some(bytes) ELSE None

TxInWitness_default ==
    [amount_rangeproof |-> None, inflation_keys_rangeproof |-> None,
     script_witness |-> <<>>, pegin_witness |-> <<>>]

create_input_witness(winfo, pd, prevout) ==
    LET pegin_witness ==
            IF IsSome(winfo) /\ IsSome(Unwrap(winfo).pegin_witness)
            THEN Ok(Unwrap(Unwrap(winfo).pegin_witness))
            ELSE IF IsSome(pd) THEN create_pegin_witness(Unwrap(pd), prevout)
            ELSE Ok(<<>>)
    IN IF ~pegin_witness.ok THEN pegin_witness
       ELSE IF IsSome(winfo)
       THEN LET wi == Unwrap(winfo)
            IN IF /\ IsSome(wi.amount_rangeproof)
                  /\ ~IsSome(RangeProof_from_slice(Unwrap(wi.amount_rangeproof)))
               THEN Err("Invalid RangeProof")
               ELSE IF /\ IsSome(wi.inflation_keys_rangeproof)
                       /\ ~IsSome(RangeProof_from_slice(
                                      Unwrap(wi.inflation_keys_rangeproof)))
               THEN Err("Invalid RangeProof")
               ELSE Ok([amount_rangeproof |-> wi.amount_rangeproof,
                        inflation_keys_rangeproof |-> wi.inflation_keys_rangeproof,
                        script_witness |->
                            IF IsSome(wi.script_witness)
                            THEN Unwrap(wi.script_witness) ELSE <<>>,
                        pegin_witness |-> pegin_witness.val])
       ELSE Ok([TxInWitness_default EXCEPT !.pegin_witness = pegin_witness.val])

(* Option::unwrap_or on the explicit flag. *)
unwrap_or(o, d) == IF IsSome(o) THEN Unwrap(o) ELSE d

(* Sequence::default() is Sequence::MAX, 0xffffffff; a sequence number is  *)
(* held as its four bytes, least significant first.                        *)
Sequence_default == <<255, 255, 255, 255>>

(* The pegin witness made from the pegin data only when the flag is set. *)
create_input_witness_by_flag(input) ==
    LET has_issuance == unwrap_or(input.has_issuance, IsSome(input.asset_issuance))
        is_pegin == unwrap_or(input.is_pegin, IsSome(input.pegin_data))
        prevout == outpoint_from_input_info(input)
    IN IF ~prevout.ok THEN prevout
       ELSE LET script_sig == IF IsSome(input.script_sig)
                              THEN create_script_sig(Unwrap(input.script_sig))
                              ELSE Ok(<<>>)
            IN IF ~script_sig.ok THEN script_sig
               ELSE LET asset_issuance ==
                            IF has_issuance
                            THEN IF IsSome(input.asset_issuance)
                                 THEN create_asset_issuance(
                                          Unwrap(input.asset_issuance))
                                 ELSE Ok(AssetIssuance_default)
                            ELSE Ok(AssetIssuance_default)
                    IN IF ~asset_issuance.ok THEN asset_issuance
                       ELSE LET witness == create_input_witness(
                                    input.witness,
                                    IF is_pegin THEN input.pegin_data ELSE None,
                                    prevout.val)
                            IN IF ~witness.ok THEN witness
                               ELSE Ok([previous_output |-> prevout.val,
                                        script_sig |-> script_sig.val,
                                        sequence |-> unwrap_or(input.sequence,
                                                               Sequence_default),
                                        is_pegin |-> is_pegin,
                                        asset_issuance |-> asset_issuance.val,
                                        witness |-> witness.val])

(* The issuance data built whatever the flag says. *)
create_input_builds_dropped_issuance(input) ==
    LET has_issuance == unwrap_or(input.has_issuance, IsSome(input.asset_issuance))
        is_pegin == unwrap_or(input.is_pegin, IsSome(input.pegin_data))
        prevout == outpoint_from_input_info(input)
    IN IF ~prevout.ok THEN prevout
       ELSE LET script_sig == IF IsSome(input.script_sig)
                              THEN create_script_sig(Unwrap(input.script_sig))
                              ELSE Ok(<<>>)
            IN IF ~script_sig.ok THEN script_sig
               ELSE LET asset_issuance ==
                            IF IsSome(input.asset_issuance)
                            THEN create_asset_issuance(Unwrap(input.asset_issuance))
                            ELSE Ok(AssetIssuance_default)
                    IN IF ~asset_issuance.ok THEN asset_issuance
                       ELSE LET witness == create_input_witness(
                                    input.witness, input.pegin_data, prevout.val)
                            IN IF ~witness.ok THEN witness
                               ELSE Ok([previous_output |-> prevout.val,
                                        script_sig |-> script_sig.val,
                                        sequence |-> unwrap_or(input.sequence,
                                                               Sequence_default),
                                        is_pegin |-> is_pegin,
                                        asset_issuance |-> asset_issuance.val,
                                        witness |-> witness.val])

(* The sequence of the record dropped: every input is built final. *)
create_input_final_sequence(input) ==
    LET has_issuance == unwrap_or(input.has_issuance, IsSome(input.asset_issuance))
        is_pegin == unwrap_or(input.is_pegin, IsSome(input.pegin_data))
        prevout == outpoint_from_input_info(input)
    IN IF ~prevout.ok THEN prevout
       ELSE LET script_sig == IF IsSome(input.script_sig)
                              THEN create_script_sig(Unwrap(input.script_sig))
                              ELSE Ok(<<>>)
            IN IF ~script_sig.ok THEN script_sig
               ELSE LET asset_issuance ==
                            IF has_issuance
                            THEN IF IsSome(input.asset_issuance)
                                 THEN create_asset_issuance(
                                          Unwrap(input.asset_issuance))
                                 ELSE Ok(AssetIssuance_default)
                            ELSE Ok(AssetIssuance_default)
                    IN IF ~asset_issuance.ok THEN asset_issuance
                       ELSE LET witness == create_input_witness(
                                    input.witness, input.pegin_data, prevout.val)
                            IN IF ~witness.ok THEN witness
                               ELSE Ok([previous_output |-> prevout.val,
                                        script_sig |-> script_sig.val,
                                        sequence |-> Sequence_default,
                                        is_pegin |-> is_pegin,
                                        asset_issuance |-> asset_issuance.val,
                                        witness |-> witness.val])

create_input(input) ==
    LET has_issuance == unwrap_or(input.has_issuance, IsSome(input.asset_issuance))
        is_pegin == unwrap_or(input.is_pegin, IsSome(input.pegin_data))
        prevout == outpoint_from_input_info(input)
    IN IF ~prevout.ok THEN prevout
       ELSE LET script_sig == IF IsSome(input.script_sig)
                              THEN create_script_sig(Unwrap(input.script_sig))
                              ELSE Ok(<<>>)
            IN IF ~script_sig.ok THEN script_sig
               ELSE LET asset_issuance ==
                            IF has_issuance
                            THEN IF IsSome(input.asset_issuance)
                                 THEN create_asset_issuance(
                                          Unwrap(input.asset_issuance))
                                 ELSE Ok(AssetIssuance_default)
                            ELSE Ok(AssetIssuance_default)
                    IN IF ~asset_issuance.ok THEN asset_issuance
                       ELSE LET witness == create_input_witness(
                                    input.witness, input.pegin_data, prevout.val)
                            IN IF ~witness.ok THEN witness
                               ELSE Ok([previous_output |-> prevout.val,
                                        script_sig |-> script_sig.val,
                                        sequence |-> unwrap_or(input.sequence,
                                                               Sequence_default),
                                        is_pegin |-> is_pegin,
                                        asset_issuance |-> asset_issuance.val,
                                        witness |-> witness.val])

----------------------------------------------------------------------------
(* Specification of create_input: one InputInfo record, built. *)

PrevoutStrs == {<<"aa", ":", "0">>, <<"bb", ":", "1">>, <<"aa">>}

InputScriptInfo == [hex : Opt({<<81>>}), asm : Opt({"OP_1"})]

AssetIssuanceInfo ==
    [asset_blinding_nonce : Opt({Rep(32, 3), <<3>>}),
     asset_entropy : Opt({Rep(32, 4), <<4>>}),
     amount : Opt({[type_ |-> "Explicit", value |-> Some(5), commitment |-> None],
                   [type_ |-> "Explicit", value |-> None, commitment |-> None]}),
     inflation_keys : Opt({[type_ |-> "Null", value |-> None, commitment |-> None]})]

PeginDataInfo ==
    [outpoint : PrevoutStrs,
     value : {5},
     asset : {[type_ |-> "Explicit", asset |-> Some("asset_a"), commitment |-> None],
              [type_ |-> "Explicit", asset |-> None, commitment |-> None],
              [type_ |-> "Null", asset |-> None, commitment |-> None],
              [type_ |-> "Confidential", asset |-> None,
               commitment |-> Some(AssetCommitment)]},
     genesis_hash : {[bytes |-> Rep(32, 6)]},
     claim_script : {<<0, 20>>},
     mainchain_tx_hex : {<<2, 0, 0>>},
     merkle_proof : {<<32>>}]

InputWitnessInfo ==
    [amount_rangeproof : Opt({GoodRangeProof, BadRangeProof}),
     inflation_keys_rangeproof : {None},
     script_witness : Opt({<<<<1>>>>}),
     pegin_witness : Opt({<<>>, <<<<9>>, <<8, 7>>>>})]

BaseInput ==
    [prevout |-> Some(<<"aa", ":", "0">>), txid |-> None, vout |-> None,
     script_sig |-> None, sequence |-> None, is_pegin |-> None,
     has_issuance |-> None, asset_issuance |-> None, witness |-> None,
     pegin_data |-> None]

(* The records handed to create_input: every combination of the two ways   *)
(* to give the prevout with every script_sig and sequence; every issuance  *)
(* flag and issuance record; every pegin flag, pegin data and witness on   *)
(* an input whose prevout is given either way.                             *)
InputInfos ==
    {[BaseInput EXCEPT !.prevout = p, !.txid = t, !.vout = v,
                       !.script_sig = s, !.sequence = q] :
        p \in Opt(PrevoutStrs), t \in Opt(Txids), v \in Opt(Vouts),
        s \in Opt(InputScriptInfo), q \in Opt({<<254, 255, 255, 255>>})}
    \cup
    {[BaseInput EXCEPT !.prevout = p, !.has_issuance = h, !.asset_issuance = a] :
        p \in {None, Some(<<"aa", ":", "0">>)},
        h \in Opt(BOOLEAN), a \in Opt(AssetIssuanceInfo)}
    \cup
    {[BaseInput EXCEPT !.prevout = pt[1], !.txid = pt[2], !.vout = pt[3],
                       !.is_pegin = g, !.pegin_data = d, !.witness = w] :
        pt \in {<<Some(<<"aa", ":", "0">>), None, None>>,
                <<None, Some("txid_b"), Some(1)>>},
        g \in Opt(BOOLEAN), d \in Opt(PeginDataInfo), w \in Opt(InputWitnessInfo)}

InitInput ==
    /\ pc = "start"
    /\ info \in InputInfos
    /\ result = Err("")
    /\ NoPset

(* create_input, line 232: the prevout is resolved first. *)
ResolvePrevout ==
    /\ pc = "start"
    /\ result' = outpoint_from_input_info(info)
    /\ pc' = IF result'.ok THEN "resolved" ELSE "rejected_prevout"
    /\ UNCHANGED <<info, pset, idx, out>>

(* create_input, lines 234-254: the TxIn is built around that prevout. *)
CreateInput ==
    /\ pc = "resolved"
    /\ Finish(create_input(info))

NextInput == ResolvePrevout \/ CreateInput

SpecInput == InitInput /\ [][NextInput]_vars

PrevoutStep == pc \in {"resolved", "rejected_prevout"}
PrevoutGiven == IsSome(info.prevout)
PrevoutParses == PrevoutGiven /\ IsSome(OutPointStr_parse(Unwrap(info.prevout)))
PrevoutOutPoint == Unwrap(OutPointStr_parse(Unwrap(info.prevout)))
PairOutPoint == OutPoint(Unwrap(info.txid), Unwrap(info.vout))
Fails(msg) == ~result.ok /\ result.err = msg

(* C4, as stated: the prevout string alone gives its outpoint, the          *)
(* (txid, vout) pair alone gives its outpoint, both given and equal give    *)
(* the common outpoint, both given and different is a conflicting-prevout   *)
(* failure, and neither given is a missing-prevout failure (records whose   *)
(* prevout string does not parse are left aside).                           *)
C4_PrevoutReconciled ==
    (PrevoutStep /\ (PrevoutGiven => PrevoutParses)) =>
        LET pair == IsSome(info.txid) /\ IsSome(info.vout)
        IN /\ (PrevoutGiven /\ ~pair) => result = Ok(PrevoutOutPoint)
           /\ (~PrevoutGiven /\ pair) => result = Ok(PairOutPoint)
           /\ (PrevoutGiven /\ pair /\ PrevoutOutPoint = PairOutPoint)
                 => result = Ok(PrevoutOutPoint)
           /\ (PrevoutGiven /\ pair /\ PrevoutOutPoint # PairOutPoint) => ~result.ok
           /\ (~PrevoutGiven /\ ~pair) => ~result.ok

(* C4, amended: as stated for the records that give txid and vout together  *)
(* or give no txid; a record that gives txid without vout fails whatever    *)
(* its prevout string is, and a vout given without txid is ignored.         *)
C4_PrevoutReconciledAmended ==
    PrevoutStep =>
        LET t == IsSome(info.txid)
            v == IsSome(info.vout)
        IN /\ (PrevoutGiven /\ ~PrevoutParses) => ~result.ok
           /\ (PrevoutGiven => PrevoutParses) =>
                /\ (t /\ ~v) =>
                      Fails("\"txid\" field given in input without \"vout\" field")
                /\ (PrevoutGiven /\ ~t) => result = Ok(PrevoutOutPoint)
                /\ (~PrevoutGiven /\ t /\ v) => result = Ok(PairOutPoint)
                /\ (PrevoutGiven /\ t /\ v /\ PrevoutOutPoint = PairOutPoint)
                      => result = Ok(PrevoutOutPoint)
                /\ (PrevoutGiven /\ t /\ v /\ PrevoutOutPoint # PairOutPoint)
                      => Fails("Conflicting prevout information in input.")
                /\ (~PrevoutGiven /\ ~t)
                      => Fails("No previous output provided in input.")

(* C4 witness: both expressions given, equal, and resolved. *)
C4_Witness ==
    /\ pc = "resolved"
    /\ PrevoutGiven /\ IsSome(info.txid) /\ IsSome(info.vout)
    /\ result.val = PairOutPoint

(* The issuance flag as create_input resolves it. *)
ResolvedHasIssuance ==
    IF IsSome(info.has_issuance) THEN Unwrap(info.has_issuance)
    ELSE IsSome(info.asset_issuance)

IssuanceComplete ==
    /\ IsSome(info.asset_issuance)
    /\ LET a == Unwrap(info.asset_issuance)
       IN /\ IsSome(a.asset_blinding_nonce)
          /\ IsSome(a.asset_entropy)
          /\ IsSome(a.amount)
          /\ IsSome(a.inflation_keys)

(* C6: an input whose resolved issuance flag is true is built only from a   *)
(* record that supplies all four issuance sub-fields; in particular no      *)
(* input is built with has_issuance = true and no issuance data.            *)
C6_IssuanceRequiredWhenFlagged ==
    (pc = "done" /\ ResolvedHasIssuance) => IssuanceComplete

(* The pegin witness comes from the explicit witness. *)
ExplicitPeginWitness ==
    IsSome(info.witness) /\ IsSome(Unwrap(info.witness).pegin_witness)
SynthesizedPeginWitness == ~ExplicitPeginWitness /\ IsSome(info.pegin_data)

PeginErrors ==
    {"Invalid outpoint in field \"pegin_data\".",
     "Outpoint in \"pegin_data\" does not correspond to input value.",
     "Field \"asset\" is required for explicit assets.",
     "Missing asset commitment", "Invalid asset commitment",
     "Asset in \"pegin_data\" should be explicit."}

(* C9: the pegin witness of a built input is the explicit pegin_witness     *)
(* whenever one is supplied (pegin data is then not validated: no pegin     *)
(* failure occurs); otherwise, with pegin data, the six elements value,     *)
(* asset, genesis hash, claim script, mainchain tx, merkle proof in that    *)
(* order; otherwise empty.                                                  *)
C9_PeginWitnessResolution ==
    /\ (pc = "failed" /\ ExplicitPeginWitness) => result.err \notin PeginErrors
    /\ pc = "done" =>
         LET pw == result.val.witness.pegin_witness
         IN CASE ExplicitPeginWitness ->
                    pw = Unwrap(Unwrap(info.witness).pegin_witness)
              [] SynthesizedPeginWitness ->
                    LET pd == Unwrap(info.pegin_data)
                    IN /\ Len(pw) = 6
                       /\ pw[1] = serialize_u64(pd.value)
                       /\ pw[2] = AssetId_bytes(Unwrap(pd.asset.asset))
                       /\ pw[3] = pd.genesis_hash.bytes
                       /\ pw[4] = <<Len(pd.claim_script)>> \o pd.claim_script
                       /\ pw[5] = <<Len(pd.mainchain_tx_hex)>> \o pd.mainchain_tx_hex
                       /\ pw[6] = <<Len(pd.merkle_proof)>> \o pd.merkle_proof
              [] OTHER -> pw = <<>>

(* C9 witness: an input built with a pegin witness synthesized from data,   *)
(* below an explicit witness that has no pegin_witness sub-field.           *)
C9_Witness ==
    /\ pc = "done"
    /\ IsSome(info.witness)
    /\ SynthesizedPeginWitness
    /\ Len(result.val.witness.pegin_witness) = 6

(* C10: an input whose pegin witness is synthesized from pegin data is      *)
(* built only if the pegin outpoint equals the input's resolved prevout     *)
(* and the pegin asset decodes to the Explicit variant.                     *)
C10_PeginDataValidated ==
    (pc = "done" /\ SynthesizedPeginWitness) =>
        LET pd == Unwrap(info.pegin_data)
        IN /\ OutPointStr_parse(pd.outpoint) = Some(result.val.previous_output)
           /\ pd.asset.type_ = "Explicit"
           /\ IsSome(pd.asset.asset)

(* C10 witness: construction failed on a pegin outpoint that is not the     *)
(* input's prevout.                                                         *)
C10_Witness ==
    /\ pc = "failed"
    /\ SynthesizedPeginWitness
    /\ Fails("Outpoint in \"pegin_data\" does not correspond to input value.")

----------------------------------------------------------------------------
(* Transaction outputs: cmd/tx.rs, create_output and what it calls *)

(* hal_elements::Network::from_params: the networks the tool knows. *)
Network_from_params(params) ==
    CASE params = "liquid" -> Some("Liquid")
      [] params = "elements" -> Some("ElementsRegtest")
      [] OTHER -> None

(* A pegout destination: hex, else assembly (unsupported), else address. *)
create_pegout_script_pubkey(spk) ==
    IF IsSome(spk.hex) THEN Ok(Unwrap(spk.hex))
    ELSE IF IsSome(spk.asm) THEN Err("Decoding script assembly is not yet supported.")
    ELSE IF IsSome(spk.address) THEN Ok(Unwrap(spk.address).spk)
    ELSE Err("No scriptPubKey info provided.")

(* The assembly taken for the script it spells. *)
create_script_pubkey_assembled(spk, used_network) ==
    IF IsSome(spk.hex) THEN [res |-> Ok(Unwrap(spk.hex)), net |-> used_network]
    ELSE IF IsSome(spk.asm)
    THEN [res |-> Ok(<<81>>), net |-> used_network]
    ELSE IF IsSome(spk.unblinded_address)
    THEN LET address == Unwrap(spk.unblinded_address)
             net == Network_from_params(address.params)
         IN IF ~IsSome(net) THEN [res |-> Err("Unknown address"), net |-> used_network]
            ELSE IF unwrap_or(used_network, Unwrap(net)) # Unwrap(net)
            THEN [res |-> Err("Addresses for different networks are used in the output scripts."),
                  net |-> net]
            ELSE [res |-> Ok(address.spk), net |-> net]
    ELSE [res |-> Err("No scriptPubKey info provided."), net |-> used_network]

(* The script of an output and the network used so far, updated.  replace() *)
(* stores the address's network and hands back the one stored before.       *)
create_script_pubkey(spk, used_network) ==
    IF IsSome(spk.hex) THEN [res |-> Ok(Unwrap(spk.hex)), net |-> used_network]
    ELSE IF IsSome(spk.asm)
    THEN [res |-> Err("Decoding script assembly is not yet supported."),
          net |-> used_network]
    ELSE IF IsSome(spk.unblinded_address)
    THEN LET address == Unwrap(spk.unblinded_address)
             net == Network_from_params(address.params)
         IN IF ~IsSome(net) THEN [res |-> Err("Unknown address"), net |-> used_network]
            ELSE IF unwrap_or(used_network, Unwrap(net)) # Unwrap(net)
            THEN [res |-> Err("Addresses for different networks are used in the output scripts."),
                  net |-> net]
            ELSE [res |-> Ok(address.spk), net |-> net]
    ELSE [res |-> Err("No scriptPubKey info provided."), net |-> used_network]

GoodProof == <<96, 51, 2>>
Proof_from_slice(bytes) == IF bytes = GoodProof THEN Some(bytes) ELSE None

TxOutWitness_default == [surjection_proof |-> None, rangeproof |-> None]

create_output_witness(w) ==
    IF IsSome(w.surjection_proof) /\ ~IsSome(Proof_from_slice(Unwrap(w.surjection_proof)))
    THEN Err("Invalid SurjectionProof")
    ELSE IF IsSome(w.rangeproof) /\ ~IsSome(Proof_from_slice(Unwrap(w.rangeproof)))
    THEN Err("Invalid RangeProof")
    ELSE Ok([surjection_proof |-> w.surjection_proof, rangeproof |-> w.rangeproof])

(* elements::script::Builder: opcodes and pushes of less than 76 bytes. *)
OP_RETURN == <<106>>
push_slice(bytes) == <<Len(bytes)>> \o bytes

RECURSIVE push_all(_)
push_all(blobs) ==
    IF blobs = <<>> THEN <<>> ELSE push_slice(Head(blobs)) \o push_all(Tail(blobs))

(* Variant that pushes the extra data before the inner script. *)
create_script_pubkey_from_pegout_data_extra_first(pd) ==
    LET inner == create_pegout_script_pubkey(pd.script_pub_key)
    IN IF ~inner.ok THEN inner
       ELSE Ok(OP_RETURN \o push_slice(pd.genesis_hash.bytes)
                         \o push_all(pd.extra_data)
                         \o push_slice(inner.val))

create_script_pubkey_from_pegout_data(pd) ==
    LET inner == create_pegout_script_pubkey(pd.script_pub_key)
    IN IF ~inner.ok THEN inner
       ELSE Ok(OP_RETURN \o push_slice(pd.genesis_hash.bytes)
                         \o push_slice(inner.val)
                         \o push_all(pd.extra_data))

(* PartialEq of confidential::Asset / Value. *)
ConfEq(a, b) == a.tag = b.tag /\ a.v = b.v

(* Variant that resolves pegout data before script_pub_key. *)
output_script_pubkey_pegout_first(output, value, asset, used_network) ==
    IF IsSome(output.pegout_data)
    THEN LET pd == Unwrap(output.pegout_data)
             pd_asset == create_confidential_asset(pd.asset)
         IN IF value.tag # "Explicit"
            THEN Err("Explicit value is required for pegout data.")
            ELSE IF Unwrap(value.v) # pd.value
            THEN Err("Value in \"pegout_data\" does not correspond to output value.")
            ELSE IF ~pd_asset.ok THEN pd_asset
            ELSE IF ~ConfEq(asset, pd_asset.val)
            THEN Err("Asset in \"pegout_data\" does not correspond to output value.")
            ELSE create_script_pubkey_from_pegout_data(pd)
    ELSE IF IsSome(output.script_pub_key)
    THEN create_script_pubkey(Unwrap(output.script_pub_key), used_network).res
    ELSE Ok(<<>>)

(* Variant that compares the pegout value only. *)
output_script_pubkey_value_only(output, value, asset, used_network) ==
    IF IsSome(output.script_pub_key)
    THEN create_script_pubkey(Unwrap(output.script_pub_key), used_network).res
    ELSE IF IsSome(output.pegout_data)
    THEN LET pd == Unwrap(output.pegout_data)
         IN IF value.tag # "Explicit"
            THEN Err("Explicit value is required for pegout data.")
            ELSE IF Unwrap(value.v) # pd.value
            THEN Err("Value in \"pegout_data\" does not correspond to output value.")
            ELSE create_script_pubkey_from_pegout_data(pd)
    ELSE Ok(<<>>)

(* The script of create_output, lines 364-384, given the decoded value and  *)
(* asset.                                                                   *)
output_script_pubkey(output, value, asset, used_network) ==
    IF IsSome(output.script_pub_key)
    THEN create_script_pubkey(Unwrap(output.script_pub_key), used_network).res
    ELSE IF IsSome(output.pegout_data)
    THEN LET pd == Unwrap(output.pegout_data)
         IN IF value.tag # "Explicit"
            THEN Err("Explicit value is required for pegout data.")
            ELSE IF Unwrap(value.v) # pd.value
            THEN Err("Value in \"pegout_data\" does not correspond to output value.")
            ELSE LET pd_asset == create_confidential_asset(pd.asset)
                 IN IF ~pd_asset.ok THEN pd_asset
                    ELSE IF ~ConfEq(asset, pd_asset.val)
                    THEN Err("Asset in \"pegout_data\" does not correspond to output value.")
                    ELSE create_script_pubkey_from_pegout_data(pd)
    ELSE Ok(<<>>)

create_output(output) ==
    LET used_network == None
        value == IF IsSome(output.value)
                 THEN create_confidential_value(Unwrap(output.value))
                 ELSE Err("Field \"value\" is required for outputs.")
    IN IF ~value.ok THEN value
       ELSE LET asset == IF IsSome(output.asset)
                         THEN create_confidential_asset(Unwrap(output.asset))
                         ELSE Err("Field \"asset\" is required for outputs.")
            IN IF ~asset.ok THEN asset
               ELSE LET nonce == IF IsSome(output.nonce)
                                 THEN create_confidential_nonce(Unwrap(output.nonce))
                                 ELSE Ok(Null)
                    IN IF ~nonce.ok THEN nonce
                       ELSE LET script_pubkey == output_script_pubkey(
                                    output, value.val, asset.val, used_network)
                            IN IF ~script_pubkey.ok THEN script_pubkey
                               ELSE LET witness ==
                                            IF IsSome(output.witness)
                                            THEN create_output_witness(
                                                     Unwrap(output.witness))
                                            ELSE Ok(TxOutWitness_default)
                                    IN IF ~witness.ok THEN witness
                                       ELSE Ok([asset |-> asset.val,
                                                value |-> value.val,
                                                nonce |-> nonce.val,
                                                script_pubkey |-> script_pubkey.val,
                                                witness |-> witness.val])

(* .into_iter().map(f).collect(): in order, stopping at the first panic. *)
RECURSIVE collect_inputs(_)
collect_inputs(inputs) ==
    IF inputs = <<>> THEN Ok(<<>>)
    ELSE LET head == create_input(Head(inputs))
         IN IF ~head.ok THEN head
            ELSE LET rest == collect_inputs(Tail(inputs))
                 IN IF ~rest.ok THEN rest ELSE Ok(<<head.val>> \o rest.val)

RECURSIVE collect_outputs(_)
collect_outputs(outputs) ==
    IF outputs = <<>> THEN Ok(<<>>)
    ELSE LET head == create_output(Head(outputs))
         IN IF ~head.ok THEN head
            ELSE LET rest == collect_outputs(Tail(outputs))
                 IN IF ~rest.ok THEN rest ELSE Ok(<<head.val>> \o rest.val)

(* Variant that refuses a record carrying a txid. *)
create_transaction_no_txid(tinfo) ==
    IF IsSome(tinfo.txid) THEN Err("Field \"txid\" is not allowed.")
    ELSE IF ~IsSome(tinfo.version) THEN Err("Field \"version\" is required.")
    ELSE IF ~IsSome(tinfo.locktime) THEN Err("Field \"locktime\" is required.")
    ELSE IF ~IsSome(tinfo.inputs) THEN Err("Field \"inputs\" is required.")
    ELSE LET input == collect_inputs(Unwrap(tinfo.inputs))
         IN IF ~input.ok THEN input
            ELSE IF ~IsSome(tinfo.outputs) THEN Err("Field \"outputs\" is required.")
            ELSE LET output == collect_outputs(Unwrap(tinfo.outputs))
                 IN IF ~output.ok THEN output
                    ELSE Ok([version |-> Unwrap(tinfo.version),
                             lock_time |-> Unwrap(tinfo.locktime),
                             input |-> input.val,
                             output |-> output.val])

create_transaction(tinfo) ==
    IF ~IsSome(tinfo.version) THEN Err("Field \"version\" is required.")
    ELSE IF ~IsSome(tinfo.locktime) THEN Err("Field \"locktime\" is required.")
    ELSE IF ~IsSome(tinfo.inputs) THEN Err("Field \"inputs\" is required.")
    ELSE LET input == collect_inputs(Unwrap(tinfo.inputs))
         IN IF ~input.ok THEN input
            ELSE IF ~IsSome(tinfo.outputs) THEN Err("Field \"outputs\" is required.")
            ELSE LET output == collect_outputs(Unwrap(tinfo.outputs))
                 IN IF ~output.ok THEN output
                    ELSE Ok([version |-> Unwrap(tinfo.version),
                             lock_time |-> Unwrap(tinfo.locktime),
                             input |-> input.val,
                             output |-> output.val])

----------------------------------------------------------------------------
(* Specification of create_transaction: one TransactionInfo record, built. *)

MaxInputs == 1
MaxOutputs == 2

SeqsUpTo(S, n) == UNION {[1..k -> S] : k \in 0..n}

Addresses ==
    {[params |-> "liquid", spk |-> <<0, 20, 1>>],
     [params |-> "liquid", spk |-> <<0, 20, 2>>],
     [params |-> "elements", spk |-> <<0, 20, 3>>],
     [params |-> "liquid_testnet", spk |-> <<0, 20, 4>>]}

OutputScriptInfo ==
    [hex : Opt({<<81>>}), asm : Opt({"OP_1"}),
     unblinded_address : Opt(Addresses), type_ : Opt({"witness_v0_keyhash"})]

(* hal::tx::OutputScriptInfo, the bitcoin side destination of a pegout. *)
PegoutScriptInfo ==
    [hex : Opt({<<82>>}), asm : Opt({"OP_2"}),
     address : Opt({[spk |-> <<0, 20, 9>>]}), type_ : {None}]

ExplicitValue(v) == [type_ |-> "Explicit", value |-> Some(v), commitment |-> None]
ExplicitAsset(a) == [type_ |-> "Explicit", asset |-> Some(a), commitment |-> None]
NullValue == [type_ |-> "Null", value |-> None, commitment |-> None]
ConfidentialAssetRec ==
    [type_ |-> "Confidential", asset |-> None, commitment |-> Some(AssetCommitment)]

PegoutDataInfo ==
    [value : Values,
     asset : {ExplicitAsset("asset_a"), ExplicitAsset("asset_b"), ConfidentialAssetRec},
     genesis_hash : {[bytes |-> Rep(32, 6)]},
     script_pub_key : PegoutScriptInfo,
     extra_data : {<<>>, <<<<1, 2>>, <<3>>>>}]

BasePegout ==
    [value |-> 5, asset |-> ExplicitAsset("asset_a"),
     genesis_hash |-> [bytes |-> Rep(32, 6)],
     script_pub_key |-> [hex |-> Some(<<82>>), asm |-> None, address |-> None,
                         type_ |-> None],
     extra_data |-> <<>>]

OutputWitnessInfo ==
    [surjection_proof : Opt({GoodProof}), rangeproof : Opt({GoodProof, <<0>>})]

BaseOutput ==
    [value |-> Some(ExplicitValue(5)), asset |-> Some(ExplicitAsset("asset_a")),
     nonce |-> None,
     script_pub_key |-> Some([hex |-> Some(<<81>>), asm |-> None,
                              unblinded_address |-> None, type_ |-> None]),
     pegout_data |-> None, witness |-> None]

AddressOnly(a) ==
    [BaseOutput EXCEPT !.script_pub_key =
        Some([hex |-> None, asm |-> None, unblinded_address |-> Some(a),
              type_ |-> None])]

(* Single outputs: every value, asset, nonce and witness; every destination *)
(* record with and without pegout data; every pegout data against every    *)
(* value and asset of the output.                                          *)
OutputInfos ==
    {[BaseOutput EXCEPT !.value = v, !.asset = a, !.nonce = n, !.witness = w] :
        v \in Opt({ExplicitValue(5), NullValue,
                   [type_ |-> "Explicit", value |-> None, commitment |-> None]}),
        a \in Opt({ExplicitAsset("asset_a"), ConfidentialAssetRec,
                   [type_ |-> "Explicit", asset |-> None, commitment |-> None]}),
        n \in Opt({[type_ |-> "Explicit", nonce |-> Some([bytes |-> Rep(32, 7)]),
                    commitment |-> None],
                   [type_ |-> "Confidential", nonce |-> None,
                    commitment |-> Some(ShortCommitment)]}),
        w \in Opt(OutputWitnessInfo)}
    \cup
    {[BaseOutput EXCEPT !.script_pub_key = s, !.pegout_data = p] :
        s \in Opt(OutputScriptInfo), p \in {None, Some(BasePegout)}}
    \cup
    {[BaseOutput EXCEPT !.script_pub_key = None, !.value = Some(v),
                        !.asset = Some(a), !.pegout_data = Some(p)] :
        v \in {ExplicitValue(5), ExplicitValue(0), NullValue},
        a \in {ExplicitAsset("asset_a"), ExplicitAsset("asset_b"),
               ConfidentialAssetRec},
        p \in PegoutDataInfo}

(* Outputs of the transactions with several outputs. *)
MixOutputs == {AddressOnly(a) : a \in Addresses} \cup {BaseOutput}

TxInputs ==
    {BaseInput, [BaseInput EXCEPT !.prevout = None],
     [BaseInput EXCEPT !.script_sig = Some([hex |-> None, asm |-> Some("OP_1")])],
     [BaseInput EXCEPT !.script_sig = Some([hex |-> Some(<<81>>), asm |-> Some("OP_1")])]}

BaseTx ==
    [txid |-> None, hash |-> None, size |-> None, weight |-> None, vsize |-> None,
     version |-> Some(2), locktime |-> Some(0),
     inputs |-> Some(<<>>), outputs |-> Some(<<>>)]

(* An output whose script record carries a type hint. *)
HintedOutput ==
    [BaseOutput EXCEPT !.script_pub_key =
        Some([hex |-> Some(<<81>>), asm |-> None, unblinded_address |-> None,
              type_ |-> Some("witness_v0_keyhash")])]

TransactionInfos ==
    {[BaseTx EXCEPT !.outputs = Some(<<o>>)] : o \in OutputInfos}
    \cup
    {[BaseTx EXCEPT !.outputs = Some(os)] : os \in SeqsUpTo(MixOutputs, MaxOutputs)}
    \cup
    {[BaseTx EXCEPT !.version = ver, !.locktime = lt, !.inputs = ins,
                    !.outputs = outs, !.txid = ig, !.size = ig,
                    !.hash = ih, !.weight = ih, !.vsize = ih] :
        ver \in Opt({2}), lt \in Opt({0}),
        ins \in Opt(SeqsUpTo(TxInputs, MaxInputs)),
        outs \in Opt({<<>>, <<BaseOutput>>, <<HintedOutput>>}),
        ig \in Opt({"ignored"}), ih \in Opt({"ignored"})}

InitTx ==
    /\ pc = "start"
    /\ info \in TransactionInfos
    /\ result = Err("")
    /\ NoPset

CreateTransaction ==
    /\ pc = "start"
    /\ Finish(create_transaction(info))

NextTx == CreateTransaction

SpecTx == InitTx /\ [][NextTx]_vars

Built == pc = "done"
Outs == Unwrap(info.outputs)
Known(a) == IsSome(Network_from_params(a.params))

(* The output's destination is an address and nothing else. *)
IsAddressOnly(o) ==
    /\ IsSome(o.script_pub_key)
    /\ ~IsSome(o.pegout_data)
    /\ LET s == Unwrap(o.script_pub_key)
       IN ~IsSome(s.hex) /\ ~IsSome(s.asm) /\ IsSome(s.unblinded_address)
AddressOf(o) == Unwrap(Unwrap(o.script_pub_key).unblinded_address)

(* C1: no transaction is built from an output list holding address-only     *)
(* destinations of two different networks: the network of the first         *)
(* address is the one every later address of the transaction must have.     *)
C1_NoMixedNetworks ==
    Built =>
        \A i, j \in 1..Len(Outs) :
            (IsAddressOnly(Outs[i]) /\ IsAddressOnly(Outs[j]))
                => AddressOf(Outs[i]).params = AddressOf(Outs[j]).params

HasScript(o) == IsSome(o.script_pub_key)
HasPegout(o) == IsSome(o.pegout_data)

(* C7, as stated: every built output has a destination (script_pub_key or   *)
(* pegout data), and never both.                                            *)
C7_ExactlyOneDestination ==
    Built =>
        \A i \in 1..Len(Outs) :
            /\ HasScript(Outs[i]) \/ HasPegout(Outs[i])
            /\ ~(HasScript(Outs[i]) /\ HasPegout(Outs[i]))

DestinationErrors ==
    {"No scriptPubKey info provided.",
     "Decoding script assembly is not yet supported."}

(* No input asks for its script_sig to be decoded from assembly, which      *)
(* fails with the same message as for an output's script.                   *)
NoInputAssembly ==
    IsSome(info.inputs) =>
        \A i \in 1..Len(Unwrap(info.inputs)) :
            LET s == Unwrap(info.inputs)[i].script_sig
            IN ~(IsSome(s) /\ ~IsSome(Unwrap(s).hex) /\ IsSome(Unwrap(s).asm))

(* C7, amended: the script comes from script_pub_key whenever it is given   *)
(* (its hex, else its address; a record with neither, or with assembly and  *)
(* no hex, is not built), pegout data given with it being ignored; from     *)
(* pegout data when only that is given; and an output with neither is       *)
(* built, with the empty script, never failing for its destination.         *)
C7_DestinationResolution ==
    /\ Built =>
         \A i \in 1..Len(Outs) :
            LET o == Outs[i]
                script == result.val.output[i].script_pubkey
            IN CASE HasScript(o) ->
                        LET s == Unwrap(o.script_pub_key)
                        IN \/ IsSome(s.hex) /\ script = Unwrap(s.hex)
                           \/ /\ ~IsSome(s.hex) /\ ~IsSome(s.asm)
                              /\ IsSome(s.unblinded_address)
                              /\ script = Unwrap(s.unblinded_address).spk
                 [] ~HasScript(o) /\ HasPegout(o) ->
                        Len(script) > 0 /\ <<script[1]>> = OP_RETURN
                 [] OTHER -> script = <<>>
    /\ (pc = "failed" /\ IsSome(info.outputs) /\ NoInputAssembly
          /\ \A i \in 1..Len(Outs) : ~HasScript(Outs[i]) /\ ~HasPegout(Outs[i]))
         => result.err \notin DestinationErrors

(* C7 witness: an output with no script_pub_key and no pegout data, built   *)
(* with the empty script.                                                   *)
C7_Witness ==
    /\ Built
    /\ Len(Outs) = 1
    /\ ~HasScript(Outs[1]) /\ ~HasPegout(Outs[1])
    /\ result.val.output[1].script_pubkey = <<>>

(* The output resolves its destination from pegout data. *)
FromPegout(o) == ~HasScript(o) /\ HasPegout(o)
PegoutValueMatches(o) ==
    LET v == Unwrap(o.value)
    IN v.type_ = "Explicit" /\ v.value = Some(Unwrap(o.pegout_data).value)
PegoutAssetMatches(o) ==
    LET a == Unwrap(o.asset)
        pa == Unwrap(o.pegout_data).asset
    IN /\ a.type_ = "Explicit" /\ pa.type_ = "Explicit"
       /\ IsSome(a.asset) /\ a.asset = pa.asset
PegoutInnerResolves(o) ==
    LET s == Unwrap(o.pegout_data).script_pub_key
    IN IsSome(s.hex) \/ (~IsSome(s.asm) /\ IsSome(s.address))
PegoutPrefix(o) == <<106, 32>> \o Unwrap(o.pegout_data).genesis_hash.bytes

(* C8: an output resolved from pegout data is built only if the pegout      *)
(* value equals the output's explicit value and the pegout asset equals     *)
(* the output's asset; with both explicit and equal (and the pegout         *)
(* destination resolvable, no nonce or witness to decode) it is built, and  *)
(* its script starts with OP_RETURN and the push of the genesis hash.       *)
C8_PegoutConsistency ==
    /\ Built =>
         \A i \in 1..Len(Outs) :
            FromPegout(Outs[i]) =>
                LET o == Outs[i]
                    script == result.val.output[i].script_pubkey
                IN /\ PegoutValueMatches(o)
                   /\ ConfEq(result.val.output[i].asset,
                             create_confidential_asset(Unwrap(o.pegout_data).asset).val)
                   /\ Unwrap(o.asset).type_ = "Explicit" => PegoutAssetMatches(o)
                   /\ SubSeq(script, 1, 34) = PegoutPrefix(o)
    /\ (pc \in {"done", "failed"} /\ info.version = Some(2) /\ info.locktime = Some(0)
          /\ info.inputs = Some(<<>>) /\ IsSome(info.outputs) /\ Len(Outs) = 1
          /\ FromPegout(Outs[1]) /\ IsSome(Outs[1].value) /\ IsSome(Outs[1].asset)
          /\ Outs[1].nonce = None /\ Outs[1].witness = None
          /\ PegoutValueMatches(Outs[1]) /\ PegoutAssetMatches(Outs[1])
          /\ PegoutInnerResolves(Outs[1]))
         => Built

(* C8 witness: an output built from pegout data with matching value and     *)
(* asset.                                                                   *)
C8_Witness ==
    /\ Built
    /\ Len(Outs) = 1
    /\ FromPegout(Outs[1])
    /\ PegoutValueMatches(Outs[1]) /\ PegoutAssetMatches(Outs[1])
    /\ result.val.output[1].script_pubkey[1] = 106

----------------------------------------------------------------------------
(* PSETs: cmd/pset.rs *)

(* BTreeMap: a function on its key set. *)
EmptyMap == <<>>
Map_insert(m, k, v) == [x \in DOMAIN m \cup {k} |-> IF x = k THEN v ELSE m[x]]
Map_get(m, k) == IF k \in DOMAIN m THEN Some(m[k]) ELSE None
Map_extend(m, other) ==
    [x \in DOMAIN m \cup DOMAIN other |-> IF x \in DOMAIN other THEN other[x] ELSE m[x]]

EmptyPsetInput ==
    [previous_output_index |-> 0,
     non_witness_utxo |-> None, witness_utxo |-> None, partial_sigs |-> EmptyMap,
     sighash_type |-> None, redeem_script |-> None, witness_script |-> None,
     bip32_derivation |-> EmptyMap, final_script_sig |-> None,
     final_script_witness |-> None]

EmptyPsetOutput ==
    [redeem_script |-> None, witness_script |-> None, bip32_derivation |-> EmptyMap]

(* A PSET over the unsigned transaction tx, with its inputs and outputs. *)
Pset(tx, inputs, outputs) ==
    [global |-> [tx |-> tx], inputs |-> inputs, outputs |-> outputs]

(* Consensus encoding of a PSET: the magic bytes "pset", 0xff, the maps. *)
serialize_pset(p) == <<"pset", 255, p>>
deserialize_pset(raw) ==
    IF Len(raw) = 3 /\ raw[1] = "pset" /\ raw[2] = 255 THEN Some(raw[3]) ELSE None

hex_encode(raw) == <<"hex">> \o raw
base64_encode(raw) == <<"base64">> \o raw

(* A file that File::open opens: read_to_end yields its bytes or fails. *)
FileOf(data) == [data |-> data, readable |-> TRUE]
Unreadable == [data |-> <<>>, readable |-> FALSE]

(* The order of the attempts swapped: base64 before hex. *)
file_or_raw_base64_first(flag) ==
    IF IsSome(flag.base64)
    THEN Ok([raw |-> Unwrap(flag.base64), source |-> "Base64"])
    ELSE IF IsSome(flag.hex) THEN Ok([raw |-> Unwrap(flag.hex), source |-> "Hex"])
    ELSE IF IsSome(flag.file)
    THEN IF Unwrap(flag.file).readable
         THEN Ok([raw |-> Unwrap(flag.file).data, source |-> "File"])
         ELSE Err("error reading file")
    ELSE Err("Can't load PSET: invalid hex, base64 or unknown file")

(* The string given for a PSET is its text (name) and what each attempt to *)
(* read it yields: its hex decoding, its base64 decoding, the file of that *)
(* name.                                                                   *)
file_or_raw(flag) ==
    IF IsSome(flag.hex) THEN Ok([raw |-> Unwrap(flag.hex), source |-> "Hex"])
    ELSE IF IsSome(flag.base64)
    THEN Ok([raw |-> Unwrap(flag.base64), source |-> "Base64"])
    ELSE IF IsSome(flag.file)
    THEN IF Unwrap(flag.file).readable
         THEN Ok([raw |-> Unwrap(flag.file).data, source |-> "File"])
         ELSE Err("error reading file")
    ELSE Err("Can't load PSET: invalid hex, base64 or unknown file")

(* exec_merge, lines 410-415: one element of the lazy iterator parts. *)
load_part(flag) ==
    LET loaded == file_or_raw(flag)
    IN IF ~loaded.ok THEN loaded
       ELSE LET p == deserialize_pset(loaded.val.raw)
            IN IF IsSome(p) THEN Ok(Unwrap(p)) ELSE Err("invalid PSET format")

merge_option(a, b) == IF IsSome(a) THEN a ELSE b

merge_input(a, b) ==
    [previous_output_index |-> a.previous_output_index,
     non_witness_utxo |-> merge_option(a.non_witness_utxo, b.non_witness_utxo),
     witness_utxo |-> merge_option(a.witness_utxo, b.witness_utxo),
     partial_sigs |-> Map_extend(a.partial_sigs, b.partial_sigs),
     sighash_type |-> merge_option(a.sighash_type, b.sighash_type),
     redeem_script |-> merge_option(a.redeem_script, b.redeem_script),
     witness_script |-> merge_option(a.witness_script, b.witness_script),
     bip32_derivation |-> Map_extend(a.bip32_derivation, b.bip32_derivation),
     final_script_sig |-> merge_option(a.final_script_sig, b.final_script_sig),
     final_script_witness |->
         merge_option(a.final_script_witness, b.final_script_witness)]

merge_output(a, b) ==
    [redeem_script |-> merge_option(a.redeem_script, b.redeem_script),
     witness_script |-> merge_option(a.witness_script, b.witness_script),
     bip32_derivation |-> Map_extend(a.bip32_derivation, b.bip32_derivation)]

(* PartiallySignedTransaction::merge: PSETs of one transaction merge. *)
Pset_merge(a, b) ==
    IF a.global # b.global THEN None
    ELSE Some([global |-> a.global,
               inputs |-> [i \in 1..Len(a.inputs) |->
                              merge_input(a.inputs[i], b.inputs[i])],
               outputs |-> [i \in 1..Len(a.outputs) |->
                              merge_output(a.outputs[i], b.outputs[i])]])

(* A failure whose message carries a number: the number is kept in val. *)
ErrAt(msg, n) == [ok |-> FALSE, val |-> <<n>>, err |-> msg]

FileWrite(path, raw) == [to |-> "file", path |-> path, data |-> raw]
Stdout(data) == [to |-> "stdout", path |-> "", data |-> data]

(* File::create(path) and write_all(raw): the file is written unless it    *)
(* cannot be created; stdout is always written.                            *)
write_file(path, raw, writable, msg) ==
    IF writable THEN [res |-> Ok(raw), writes |-> <<FileWrite(path, raw)>>]
    ELSE [res |-> Err(msg), writes |-> <<>>]
write_stdout(data, raw) == [res |-> Ok(raw), writes |-> <<Stdout(data)>>]

(* The source consulted before the explicit destination. *)
write_back_source_first(matches, source, raw, newline) ==
    IF source = "File"
    THEN write_file(matches.pset.name, raw, matches.writable,
                    "failed to PSET file for writing")
    ELSE IF IsSome(matches.output)
    THEN write_file(Unwrap(matches.output), raw, matches.writable,
                    "failed to open output file")
    ELSE IF matches.raw_stdout THEN write_stdout(raw, raw)
    ELSE IF source = "Hex" THEN write_stdout(hex_encode(raw) \o newline, raw)
    ELSE write_stdout(base64_encode(raw) \o newline, raw)

(* exec_edit lines 350-365 and exec_rawsign lines 522-537: the PSET goes   *)
(* to the output file, else raw to stdout, else back in the form it came   *)
(* in; exec_rawsign prints the text with println!, exec_edit with print!.  *)
write_back(matches, source, raw, newline) ==
    IF IsSome(matches.output)
    THEN write_file(Unwrap(matches.output), raw, matches.writable,
                    "failed to open output file")
    ELSE IF matches.raw_stdout THEN write_stdout(raw, raw)
    ELSE IF source = "Hex" THEN write_stdout(hex_encode(raw) \o newline, raw)
    ELSE IF source = "Base64" THEN write_stdout(base64_encode(raw) \o newline, raw)
    ELSE write_file(matches.pset.name, raw, matches.writable,
                    "failed to PSET file for writing")

(* The writes made, the outcome recorded. *)
Written(w) ==
    /\ out' = out \o w.writes
    /\ result' = w.res
    /\ pc' = IF w.res.ok THEN "done" ELSE "failed"

----------------------------------------------------------------------------
(* Specification of exec_merge. *)

MaxPsets == 3

SigA == <<48, 1>>
SigB == <<48, 2>>
PsetTx1 == Pset("tx1", <<EmptyPsetInput>>, <<EmptyPsetOutput>>)
PsetTx1Signed ==
    Pset("tx1", <<[EmptyPsetInput EXCEPT !.partial_sigs = Map_insert(EmptyMap, "pk_a", SigA)]>>,
         <<EmptyPsetOutput>>)
PsetTx2 == Pset("tx2", <<EmptyPsetInput>>, <<EmptyPsetOutput>>)

NoFlag == [name |-> "in.pset", hex |-> None, base64 |-> None, file |-> None]
MergeFlags ==
    {[NoFlag EXCEPT !.hex = Some(serialize_pset(PsetTx1))],
     [NoFlag EXCEPT !.base64 = Some(serialize_pset(PsetTx1Signed))],
     [NoFlag EXCEPT !.file = Some(FileOf(serialize_pset(PsetTx2)))],
     [NoFlag EXCEPT !.hex = Some(<<"junk">>)],
     NoFlag}

InitMerge ==
    /\ pc = "start"
    /\ info \in [cmd : {"merge"},
                 psets : UNION {[1..k -> MergeFlags] : k \in 1..MaxPsets},
                 output : Opt({"merged.pset"}),
                 raw_stdout : BOOLEAN,
                 writable : BOOLEAN]
    /\ result = Err("")
    /\ pset = <<>>
    /\ idx = 0
    /\ out = <<>>

(* line 417: parts.next().unwrap(), the base of the fold. *)
MergeBase ==
    /\ info.cmd = "merge"
    /\ pc = "start"
    /\ LET first == load_part(info.psets[1])
       IN IF first.ok
          THEN /\ pset' = first.val
               /\ pc' = "merging"
               /\ UNCHANGED result
          ELSE /\ result' = first
               /\ pc' = "failed"
               /\ UNCHANGED pset
    /\ UNCHANGED <<info, idx, out>>

(* lines 418-421: one turn of the loop over parts.enumerate(). *)
MergePart ==
    /\ info.cmd = "merge"
    /\ pc = "merging"
    /\ idx + 2 <= Len(info.psets)
    /\ LET part == load_part(info.psets[idx + 2])
       IN IF ~part.ok
          THEN /\ result' = part
               /\ pc' = "failed"
               /\ UNCHANGED <<pset, idx>>
          ELSE LET merged == Pset_merge(pset, part.val)
               IN IF IsSome(merged)
                  THEN /\ pset' = Unwrap(merged)
                       /\ idx' = idx + 1
                       /\ UNCHANGED <<pc, result>>
                  ELSE /\ result' = ErrAt("error merging PSET #", idx)
                       /\ pc' = "failed"
                       /\ UNCHANGED <<pset, idx>>
    /\ UNCHANGED <<info, out>>

(* lines 423-431: the merged PSET is written. *)
MergeWrite ==
    /\ info.cmd = "merge"
    /\ pc = "merging"
    /\ idx + 1 = Len(info.psets)
    /\ LET merged_raw == serialize_pset(pset)
       IN Written(IF IsSome(info.output)
                  THEN write_file(Unwrap(info.output), merged_raw, info.writable,
                                  "failed to open output file")
                  ELSE IF info.raw_stdout THEN write_stdout(merged_raw, merged_raw)
                  ELSE write_stdout(base64_encode(merged_raw), merged_raw))
    /\ UNCHANGED <<info, pset, idx>>

NextMerge == MergeBase \/ MergePart \/ MergeWrite

SpecMerge == InitMerge /\ [][NextMerge]_vars

(* The first element after the base that does not merge, as its position    *)
(* in the list given on the command line (the base is at position 0).       *)
Unmergeable(k) ==
    /\ load_part(info.psets[k + 1]).ok
    /\ load_part(info.psets[k + 1]).val.global # pset.global
MergeFailed == pc = "failed" /\ result.err = "error merging PSET #"

(* C2: a merge failure is attributed to the position in [P0, P1, P2, ...]   *)
(* of the element that could not be merged (P1 is index 1, P2 index 2),     *)
(* and a failed merge writes nothing.                                       *)
C2_MergeFailureIndex ==
    /\ MergeFailed =>
          /\ result.val[1] \in 1..(Len(info.psets) - 1)
          /\ Unmergeable(result.val[1])
          /\ \A k \in 1..(result.val[1] - 1) : ~Unmergeable(k)
    /\ pc = "failed" => out = <<>>

----------------------------------------------------------------------------
(* exec_edit: cmd/pset.rs, edit_input and edit_output *)

(* Hex text is the sequence of its digit pairs; "zz" is no hex. *)
HexByte == [h \in {"00", "01", "02", "30", "51", "ac"} |->
              CASE h = "00" -> 0 [] h = "01" -> 1 [] h = "02" -> 2
                [] h = "30" -> 48 [] h = "51" -> 81 [] h = "ac" -> 172]
hex_decode(text) ==
    IF \A i \in 1..Len(text) : text[i] \in DOMAIN HexByte
    THEN Some([i \in 1..Len(text) |-> HexByte[text[i]]])
    ELSE None

(* PublicKey::from_str on the key texts met on the command line. *)
PublicKey_parse(text) ==
    CASE text = "02aa" -> Some("pk_a")
      [] text = "03bb" -> Some("pk_b")
      [] OTHER -> None

(* DerivationPath::from_str. *)
DerivationPath_parse(text) ==
    CASE text = "m/0" -> Some(<<0>>)
      [] text = "m/1" -> Some(<<1>>)
      [] OTHER -> None

(* str::parse::<usize>. *)
usize_parse(text) ==
    CASE text = "0" -> Some(0)
      [] text = "1" -> Some(1)
      [] text = "2" -> Some(2)
      [] OTHER -> None

(* deserialize of a transaction (non-witness-utxo) and of a TxOut           *)
(* (witness-utxo): the bytes start with the version, resp. the asset tag.   *)
deserialize_tx(raw) ==
    IF Len(raw) >= 2 /\ raw[1] = 2 THEN Some([tx |-> raw]) ELSE None
deserialize_txout(raw) ==
    IF Len(raw) >= 2 /\ raw[1] = 1 THEN Some([txout |-> raw]) ELSE None

(* A `<pubkey>:<signature>` pair, as the parts splitn(2, ":") yields. *)
parse_partial_sig_pair(pair) ==
    LET pubkey == PublicKey_parse(pair[1])
    IN IF ~IsSome(pubkey) THEN Err("invalid partial sig pubkey")
       ELSE IF Len(pair) < 2 THEN Err("invalid partial sig pair: missing signature")
       ELSE LET sig == hex_decode(pair[2])
            IN IF ~IsSome(sig) THEN Err("invalid partial sig signature hex")
               ELSE Ok(<<Unwrap(pubkey), Unwrap(sig)>>)

(* A `<pubkey>:<master-fp>:<path>` triplet, as the parts of splitn(3, ":"). *)
parse_hd_keypath_triplet(triplet) ==
    LET pubkey == PublicKey_parse(triplet[1])
    IN IF ~IsSome(pubkey) THEN Err("invalid HD keypath pubkey")
       ELSE IF Len(triplet) < 2
       THEN Err("invalid HD keypath triplet: missing fingerprint")
       ELSE LET raw == hex_decode(triplet[2])
            IN IF ~IsSome(raw) THEN Err("invalid HD keypath fingerprint hex")
               ELSE IF Len(Unwrap(raw)) # 4
               THEN ErrAt("invalid HD keypath fingerprint size: instead of 4",
                          Len(Unwrap(raw)))
               ELSE IF Len(triplet) < 3
               THEN Err("invalid HD keypath triplet: missing HD path")
               ELSE LET path == DerivationPath_parse(triplet[3])
                    IN IF ~IsSome(path) THEN Err("invalid derivation path format")
                       ELSE Ok(<<Unwrap(pubkey), <<Unwrap(raw), Unwrap(path)>>>>)

sighashtype_from_string(sht) ==
    IF sht \in {"ALL", "NONE", "SINGLE", "ALL|ANYONECANPAY", "NONE|ANYONECANPAY",
                "SINGLE|ANYONECANPAY"}
    THEN Ok(sht)
    ELSE Err("invalid SIGHASH type value")

(* The in-memory state while a handler runs: the map or record being       *)
(* edited and, once it panicked, the panic.                                *)
Running(x) == [ok |-> TRUE, err |-> "", at |-> x]
Panicked(msg, x) == [ok |-> FALSE, err |-> msg, at |-> x]

(* csv.split(",").map(parse).collect(): a map built from the parsed         *)
(* entries in order, a later entry of a key replacing an earlier one.       *)
RECURSIVE collect_map(_, _, _)
collect_map(texts, parse_partial_sig, acc) ==
    IF texts = <<>> THEN Running(acc)
    ELSE LET e == IF parse_partial_sig
                  THEN parse_partial_sig_pair(Head(texts))
                  ELSE parse_hd_keypath_triplet(Head(texts))
         IN IF ~e.ok THEN Panicked(e.err, acc)
            ELSE collect_map(Tail(texts), parse_partial_sig,
                             Map_insert(acc, e.val[1], e.val[2]))

(* The entries inserted with no look at the previous value. *)
insert_all_unchecked(texts, parse_partial_sig, map) ==
    collect_map(texts, parse_partial_sig, map)

(* for (pk, v) in values.map(parse) { if map.insert(pk, v).is_some()        *)
(* { panic } }: the entry is inserted, then the previous value is looked at.*)
RECURSIVE insert_all(_, _, _)
insert_all(texts, parse_partial_sig, map) ==
    IF texts = <<>> THEN Running(map)
    ELSE LET e == IF parse_partial_sig
                  THEN parse_partial_sig_pair(Head(texts))
                  ELSE parse_hd_keypath_triplet(Head(texts))
         IN IF ~e.ok THEN Panicked(e.err, map)
            ELSE LET previous == Map_get(map, e.val[1])
                     inserted == Map_insert(map, e.val[1], e.val[2])
                 IN IF IsSome(previous)
                    THEN Panicked(IF parse_partial_sig
                                  THEN "public key is already in partial sigs"
                                  ELSE "public key is already in HD keypaths",
                                  inserted)
                    ELSE insert_all(Tail(texts), parse_partial_sig, inserted)

(* The `if let Some(hex) = matches.value_of(..)` blocks setting a UTXO     *)
(* field: the hex is decoded, then the bytes are deserialized.              *)
set_non_witness_utxo(st, arg) ==
    IF ~st.ok \/ ~IsSome(arg) THEN st
    ELSE LET raw == hex_decode(Unwrap(arg))
         IN IF ~IsSome(raw) THEN Panicked("invalid non-witness-utxo hex", st.at)
            ELSE LET utxo == deserialize_tx(Unwrap(raw))
                 IN IF ~IsSome(utxo)
                    THEN Panicked("invalid non-witness-utxo transaction", st.at)
                    ELSE Running([st.at EXCEPT !.non_witness_utxo = utxo])

set_witness_utxo(st, arg) ==
    IF ~st.ok \/ ~IsSome(arg) THEN st
    ELSE LET raw == hex_decode(Unwrap(arg))
         IN IF ~IsSome(raw) THEN Panicked("invalid witness-utxo hex", st.at)
            ELSE LET utxo == deserialize_txout(Unwrap(raw))
                 IN IF ~IsSome(utxo)
                    THEN Panicked("invalid witness-utxo transaction", st.at)
                    ELSE Running([st.at EXCEPT !.witness_utxo = utxo])

(* The blocks setting an Option field from the bytes themselves. *)
set_script(st, arg, field, bad_hex) ==
    IF ~st.ok \/ ~IsSome(arg) THEN st
    ELSE LET raw == hex_decode(Unwrap(arg))
         IN IF ~IsSome(raw) THEN Panicked(bad_hex, st.at)
            ELSE Running([st.at EXCEPT ![field] = raw])

(* Variant that keeps the entries the map held. *)
set_map_extending(st, arg, field, parse_partial_sig) ==
    IF ~st.ok \/ ~IsSome(arg) THEN st
    ELSE LET collected == collect_map(Unwrap(arg), parse_partial_sig, st.at[field])
         IN IF ~collected.ok THEN Panicked(collected.err, st.at)
            ELSE Running([st.at EXCEPT ![field] = collected.at])

(* partial-sigs and hd-keypaths: the map is replaced by the collected one. *)
set_map(st, arg, field, parse_partial_sig) ==
    IF ~st.ok \/ ~IsSome(arg) THEN st
    ELSE LET collected == collect_map(Unwrap(arg), parse_partial_sig, EmptyMap)
         IN IF ~collected.ok THEN Panicked(collected.err, st.at)
            ELSE Running([st.at EXCEPT ![field] = collected.at])

(* partial-sigs-add and hd-keypaths-add: entries go into the map in place. *)
add_to_map(st, values, field, parse_partial_sig) ==
    IF ~st.ok \/ values = <<>> THEN st
    ELSE LET added == insert_all(values, parse_partial_sig, st.at[field])
         IN [ok |-> added.ok, err |-> added.err,
             at |-> [st.at EXCEPT ![field] = added.at]]

set_sighash_type(st, arg) ==
    IF ~st.ok \/ ~IsSome(arg) THEN st
    ELSE LET sht == sighashtype_from_string(Unwrap(arg))
         IN IF ~sht.ok THEN Panicked(sht.err, st.at)
            ELSE Running([st.at EXCEPT !.sighash_type = Some(sht.val)])

set_final_script_witness(st, arg) ==
    IF ~st.ok \/ ~IsSome(arg) THEN st
    ELSE LET vhex == Unwrap(arg)
         IN IF \E i \in 1..Len(vhex) : ~IsSome(hex_decode(vhex[i]))
            THEN Panicked("invalid final-script-witness hex", st.at)
            ELSE Running([st.at EXCEPT !.final_script_witness =
                             Some([i \in 1..Len(vhex) |-> Unwrap(hex_decode(vhex[i]))])])

(* The result of an edit: the outcome and the PSET as the handler left it. *)
Edited(st, p, inputs, i) ==
    [res |-> IF st.ok THEN Ok(<<>>) ELSE Err(st.err),
     pset |-> IF inputs THEN [p EXCEPT !.inputs[i] = st.at]
              ELSE [p EXCEPT !.outputs[i] = st.at]]

(* The additive blocks of edit_input put before the replace blocks. *)
InputBlocks_add_first ==
    <<"non-witness-utxo", "witness-utxo", "partial-sigs-add", "partial-sigs",
      "sighash-type", "redeem-script", "witness-script", "hd-keypaths-add",
      "hd-keypaths", "final-script-sig", "final-script-witness">>

(* The blocks of edit_input and of edit_output, in the order of the code. *)
InputBlocks ==
    <<"non-witness-utxo", "witness-utxo", "partial-sigs", "partial-sigs-add",
      "sighash-type", "redeem-script", "witness-script", "hd-keypaths",
      "hd-keypaths-add", "final-script-sig", "final-script-witness">>
OutputBlocks == <<"redeem-script", "witness-script", "hd-keypaths", "hd-keypaths-add">>

edit_block(name, st, matches) ==
    CASE name = "non-witness-utxo" -> set_non_witness_utxo(st, matches.non_witness_utxo)
      [] name = "witness-utxo" -> set_witness_utxo(st, matches.witness_utxo)
      [] name = "partial-sigs" -> set_map(st, matches.partial_sigs, "partial_sigs", TRUE)
      [] name = "partial-sigs-add" ->
            add_to_map(st, matches.partial_sigs_add, "partial_sigs", TRUE)
      [] name = "sighash-type" -> set_sighash_type(st, matches.sighash_type)
      [] name = "redeem-script" ->
            set_script(st, matches.redeem_script, "redeem_script",
                       "invalid redeem-script hex")
      [] name = "witness-script" ->
            set_script(st, matches.witness_script, "witness_script",
                       "invalid witness-script hex")
      [] name = "hd-keypaths" ->
            set_map(st, matches.hd_keypaths, "bip32_derivation", FALSE)
      [] name = "hd-keypaths-add" ->
            add_to_map(st, matches.hd_keypaths_add, "bip32_derivation", FALSE)
      [] name = "final-script-sig" ->
            set_script(st, matches.final_script_sig, "final_script_sig",
                       "invalid final-script-sig hex")
      [] name = "final-script-witness" ->
            set_final_script_witness(st, matches.final_script_witness)

RECURSIVE edit_blocks(_, _, _)
edit_blocks(names, st, matches) ==
    IF names = <<>> THEN st
    ELSE edit_blocks(Tail(names), edit_block(Head(names), st, matches), matches)

edit_input(i, matches, p) ==
    IF i + 1 > Len(p.inputs)
    THEN [res |-> Err("input index out of range"), pset |-> p]
    ELSE Edited(edit_blocks(InputBlocks, Running(p.inputs[i + 1]), matches),
                p, TRUE, i + 1)

(* Variant that has the sighash type parsed for an output too. *)
edit_output_parses_sighash(i, matches, p) ==
    IF i + 1 > Len(p.outputs)
    THEN [res |-> Err("output index out of range"), pset |-> p]
    ELSE IF IsSome(matches.sighash_type)
            /\ ~sighashtype_from_string(Unwrap(matches.sighash_type)).ok
    THEN [res |-> Err("invalid SIGHASH type value"), pset |-> p]
    ELSE Edited(edit_blocks(OutputBlocks, Running(p.outputs[i + 1]), matches),
                p, FALSE, i + 1)

edit_output(i, matches, p) ==
    IF i + 1 > Len(p.outputs)
    THEN [res |-> Err("output index out of range"), pset |-> p]
    ELSE Edited(edit_blocks(OutputBlocks, Running(p.outputs[i + 1]), matches),
                p, FALSE, i + 1)

----------------------------------------------------------------------------
(* Specification of exec_edit. *)

(* clap hands an option that is not `multiple` at most one value. *)
MaxAddValues == 1

KeypathA == <<<<0, 0, 0, 1>>, <<0>>>>
KeypathB == <<<<0, 0, 0, 2>>, <<1>>>>

EditPsetSigned ==
    Pset("tx1",
         <<[EmptyPsetInput EXCEPT !.partial_sigs = Map_insert(EmptyMap, "pk_a", SigA),
                                  !.bip32_derivation =
                                      Map_insert(EmptyMap, "pk_a", KeypathA)]>>,
         <<[EmptyPsetOutput EXCEPT !.bip32_derivation =
                                      Map_insert(EmptyMap, "pk_a", KeypathA)]>>)
EditPsetTwoInputs ==
    Pset("tx2",
         <<EmptyPsetInput, [EmptyPsetInput EXCEPT !.redeem_script = Some(<<81>>)]>>,
         <<EmptyPsetOutput>>)

(* A PSET whose first input holds a value in every field the editor sets. *)
EditPsetFull ==
    Pset("tx2",
         <<[previous_output_index |-> 0,
            non_witness_utxo |-> Some([tx |-> <<2, 9>>]),
            witness_utxo |-> Some([txout |-> <<1, 9>>]),
            partial_sigs |-> Map_insert(EmptyMap, "pk_b", SigB),
            sighash_type |-> Some("NONE"),
            redeem_script |-> Some(<<0>>), witness_script |-> Some(<<0, 0>>),
            bip32_derivation |-> Map_insert(EmptyMap, "pk_b", KeypathB),
            final_script_sig |-> Some(<<1>>),
            final_script_witness |-> Some(<<<<2>>>>)],
           [EmptyPsetInput EXCEPT !.redeem_script = Some(<<81>>)]>>,
         <<[EmptyPsetOutput EXCEPT !.witness_script = Some(<<0>>)]>>)

EditFlags ==
    {[NoFlag EXCEPT !.hex = Some(serialize_pset(EditPsetSigned))],
     [NoFlag EXCEPT !.base64 = Some(serialize_pset(EditPsetTwoInputs))],
     [NoFlag EXCEPT !.file = Some(FileOf(serialize_pset(EditPsetSigned)))]}

PartialSigPairs ==
    {<<"02aa", <<"30", "01">>>>, <<"02aa", <<"30", "02">>>>,
     <<"03bb", <<"30", "02">>>>, <<"03bb", <<"zz">>>>, <<"02aa">>, <<"04cc", <<"30">>>>}
PartialSigCsvs ==
    {<<<<"02aa", <<"30", "01">>>>>>,
     <<<<"02aa", <<"30", "01">>>>, <<"03bb", <<"30", "02">>>>>>,
     <<<<"02aa", <<"30", "01">>>>, <<"02aa", <<"30", "02">>>>>>,
     <<<<"03bb", <<"30", "02">>>>, <<"04cc", <<"30">>>>>>,
     <<<<"03bb", <<"30", "02">>>>>>}

HdKeypathTriplets ==
    {<<"02aa", <<"00", "00", "00", "01">>, "m/0">>,
     <<"02aa", <<"00", "00", "00", "02">>, "m/1">>,
     <<"03bb", <<"00", "00", "00", "02">>, "m/1">>,
     <<"03bb", <<"00", "00", "02">>, "m/1">>,
     <<"03bb", <<"00", "00", "00", "02">>, "1/m">>,
     <<"03bb", <<"zz">>, "m/1">>,
     <<"03bb", <<"00", "00", "00", "02">>>>, <<"03bb">>, <<"04cc">>}
HdKeypathCsvs ==
    {<<<<"02aa", <<"00", "00", "00", "01">>, "m/0">>>>,
     <<<<"03bb", <<"00", "00", "00", "02">>, "m/1">>,
       <<"02aa", <<"00", "00", "00", "01">>, "m/0">>>>,
     <<<<"03bb", <<"00", "00", "00", "02">>, "m/1">>, <<"04cc">>>>,
     <<<<"03bb", <<"00", "00", "00", "02">>, "m/1">>>>}

AddValues(S) == SeqsUpTo(S, MaxAddValues)

BaseEdit ==
    [cmd |-> "edit",
     pset |-> [NoFlag EXCEPT !.hex = Some(serialize_pset(EditPsetSigned))],
     input_idx |-> Some("0"), output_idx |-> None,
     output |-> None, raw_stdout |-> FALSE, writable |-> TRUE,
     non_witness_utxo |-> None, witness_utxo |-> None,
     partial_sigs |-> None, partial_sigs_add |-> <<>>,
     sighash_type |-> None, redeem_script |-> None, witness_script |-> None,
     hd_keypaths |-> None, hd_keypaths_add |-> <<>>,
     final_script_sig |-> None, final_script_witness |-> None]

EditMatches ==
    {[BaseEdit EXCEPT !.pset = f, !.input_idx = i, !.partial_sigs = ps,
                      !.partial_sigs_add = pa, !.sighash_type = sht]
        : f \in EditFlags, i \in {Some("0"), Some("1")},
          ps \in Opt(PartialSigCsvs), pa \in AddValues(PartialSigPairs),
          sht \in Opt({"ALL", "SINGLE|ANYONECANPAY", "all"})}
    \cup {[BaseEdit EXCEPT !.pset = f, !.input_idx = i, !.output_idx = o,
                           !.hd_keypaths = hd, !.hd_keypaths_add = ha]
        : f \in EditFlags,
          i \in {None, Some("0")}, o \in {None, Some("0")},
          hd \in Opt(HdKeypathCsvs), ha \in AddValues(HdKeypathTriplets)}
    \cup {[BaseEdit EXCEPT !.pset = [NoFlag EXCEPT !.hex =
                                         Some(serialize_pset(EditPsetFull))],
                           !.non_witness_utxo = nwu, !.witness_utxo = wu,
                           !.redeem_script = rs, !.witness_script = ws,
                           !.final_script_sig = fss, !.final_script_witness = fsw]
        : nwu \in Opt({<<"02", "00">>, <<"01", "00">>, <<"zz">>}),
          wu \in Opt({<<"01", "00">>, <<"02", "00">>, <<"zz">>}),
          rs \in Opt({<<"51">>, <<"zz">>}), ws \in Opt({<<"ac">>, <<"zz">>}),
          fss \in Opt({<<"00">>, <<"zz">>}),
          fsw \in Opt({<<<<"30", "01">>, <<"51">>>>, <<<<"30">>, <<"zz">>>>})}
    \cup {[BaseEdit EXCEPT !.pset = f, !.input_idx = i, !.output_idx = o,
                           !.output = path, !.raw_stdout = r, !.writable = w,
                           !.redeem_script = rs]
        : f \in EditFlags \cup {NoFlag, [NoFlag EXCEPT !.hex = Some(<<"junk">>)]},
          i \in Opt({"0", "2", "x"}), o \in Opt({"0", "1", "x"}),
          path \in Opt({"edited.pset"}), r \in BOOLEAN, w \in BOOLEAN,
          rs \in Opt({<<"51">>})}
    \cup {[BaseEdit EXCEPT !.input_idx = None, !.output_idx = Some("0"),
                           !.non_witness_utxo = nwu, !.witness_utxo = nwu,
                           !.partial_sigs = ps, !.partial_sigs_add = pa,
                           !.sighash_type = sht, !.final_script_sig = fss,
                           !.final_script_witness = fsw, !.redeem_script = rs]
        : nwu \in Opt({<<"zz">>}),
          ps \in Opt({<<<<"04cc", <<"30">>>>>>, <<<<"03bb", <<"30", "02">>>>>>}),
          pa \in {<<>>, <<<<"03bb", <<"zz">>>>>>, <<<<"02aa", <<"30", "01">>>>>>},
          sht \in Opt({"all"}), fss \in Opt({<<"zz">>}),
          fsw \in Opt({<<<<"zz">>>>}), rs \in Opt({<<"51">>})}

InitEdit ==
    /\ pc = "start"
    /\ info \in EditMatches
    /\ result = Err("")
    /\ pset = <<>>
    /\ idx = 0
    /\ out = <<>>

(* lines 334-336: the PSET is read and deserialized. *)
EditLoad ==
    /\ info.cmd = "edit"
    /\ pc = "start"
    /\ LET loaded == load_part(info.pset)
       IN IF loaded.ok
          THEN /\ pset' = loaded.val
               /\ pc' = "loaded"
               /\ UNCHANGED result
          ELSE /\ result' = loaded
               /\ pc' = "failed"
               /\ UNCHANGED pset
    /\ UNCHANGED <<info, idx, out>>

(* lines 339-340: no index, or both an input and an output index. *)
EditRejectTarget ==
    /\ info.cmd = "edit"
    /\ pc = "loaded"
    /\ IsSome(info.input_idx) = IsSome(info.output_idx)
    /\ result' = IF IsSome(info.input_idx)
                 THEN Err("can only edit an input or an output at a time")
                 ELSE Err("no input or output index provided")
    /\ pc' = "failed"
    /\ UNCHANGED <<info, pset, idx, out>>

(* The index parsed, the handler run on the PSET in memory. *)
EditWith(arg, bad_index, input) ==
    LET i == usize_parse(Unwrap(arg))
    IN IF ~IsSome(i)
       THEN /\ result' = Err(bad_index)
            /\ pc' = "failed"
            /\ UNCHANGED <<pset, idx>>
       ELSE LET e == IF input THEN edit_input(Unwrap(i), info, pset)
                     ELSE edit_output(Unwrap(i), info, pset)
            IN /\ pset' = e.pset
               /\ idx' = Unwrap(i)
               /\ result' = e.res
               /\ pc' = IF e.res.ok THEN "edited" ELSE "failed"

(* The loaded PSET written out before the edit is made. *)
EditInput_write_first ==
    /\ info.cmd = "edit"
    /\ pc = "loaded"
    /\ IsSome(info.input_idx) /\ ~IsSome(info.output_idx)
    /\ out' = out \o write_back(info, file_or_raw(info.pset).val.source,
                                serialize_pset(pset), <<>>).writes
    /\ EditWith(info.input_idx, "invalid input index", TRUE)
    /\ UNCHANGED info

(* lines 341-343. *)
EditInput ==
    /\ info.cmd = "edit"
    /\ pc = "loaded"
    /\ IsSome(info.input_idx) /\ ~IsSome(info.output_idx)
    /\ EditWith(info.input_idx, "invalid input index", TRUE)
    /\ UNCHANGED <<info, out>>

(* The output index taken for an input index. *)
EditOutput_edits_input ==
    /\ info.cmd = "edit"
    /\ pc = "loaded"
    /\ ~IsSome(info.input_idx) /\ IsSome(info.output_idx)
    /\ EditWith(info.output_idx, "invalid output index", TRUE)
    /\ UNCHANGED <<info, out>>

(* lines 344-346. *)
EditOutput ==
    /\ info.cmd = "edit"
    /\ pc = "loaded"
    /\ ~IsSome(info.input_idx) /\ IsSome(info.output_idx)
    /\ EditWith(info.output_idx, "invalid output index", FALSE)
    /\ UNCHANGED <<info, out>>

(* lines 349-365: the edited PSET is written. *)
EditWrite ==
    /\ info.cmd = "edit"
    /\ pc = "edited"
    /\ Written(write_back(info, file_or_raw(info.pset).val.source,
                          serialize_pset(pset), <<>>))
    /\ UNCHANGED <<info, pset, idx>>

NextEdit == EditLoad \/ EditRejectTarget \/ EditInput \/ EditOutput \/ EditWrite

SpecEdit == InitEdit /\ [][NextEdit]_vars

(* The PSET as loaded, and the map an additive edit starts from: the       *)
(* loaded one, or the one a replacing edit of the same command left.       *)
LoadedPset == load_part(info.pset).val
OnInput == IsSome(info.input_idx) /\ ~IsSome(info.output_idx)
EditedItem == IF OnInput THEN pset.inputs[idx + 1] ELSE pset.outputs[idx + 1]
LoadedItem ==
    IF OnInput THEN LoadedPset.inputs[idx + 1] ELSE LoadedPset.outputs[idx + 1]
SigsBeforeAdd ==
    IF IsSome(info.partial_sigs)
    THEN collect_map(Unwrap(info.partial_sigs), TRUE, EmptyMap).at
    ELSE LoadedItem.partial_sigs
KeypathsBeforeAdd ==
    IF IsSome(info.hd_keypaths)
    THEN collect_map(Unwrap(info.hd_keypaths), FALSE, EmptyMap).at
    ELSE LoadedItem.bip32_derivation
DuplicateSig == pc = "failed" /\ result.err = "public key is already in partial sigs"
DuplicateKeypath ==
    pc = "failed" /\ result.err = "public key is already in HD keypaths"

(* C3: an additive partial-sig or HD-keypath edit that meets a key already *)
(* in the map fails with the duplicate-key error, and after that failure   *)
(* the map equals the map before the edit: no entry added, no value        *)
(* replaced.                                                               *)
C3_AdditiveEditLeavesMapUnchanged ==
    /\ DuplicateSig => EditedItem.partial_sigs = SigsBeforeAdd
    /\ DuplicateKeypath => EditedItem.bip32_derivation = KeypathsBeforeAdd

----------------------------------------------------------------------------
(* Specification of file_or_raw alone. *)

SourceRaws == {<<"r1">>, <<"r2">>, <<"r3", "r4">>, serialize_pset(PsetTx1)}

InitSource ==
    /\ pc = "start"
    /\ info \in [name : {"in.pset"}, hex : Opt(SourceRaws), base64 : Opt(SourceRaws),
                 file : Opt({FileOf(r) : r \in SourceRaws} \cup {Unreadable})]
    /\ result = Err("")
    /\ NoPset

FileOrRaw ==
    /\ pc = "start"
    /\ Finish(file_or_raw(info))

NextSource == FileOrRaw

SpecSource == InitSource /\ [][NextSource]_vars

SourceTried == pc \in {"done", "failed"}

(* C11: file_or_raw tries hex, then base64, then the file of that name;    *)
(* the first that succeeds gives both the bytes and the source kind, so    *)
(* text that is hex is Hex whatever else it is and text that is base64 is  *)
(* never a file; when all three fail the load fails with the              *)
(* unrecognized-source error.                                              *)
C11_SourceResolutionOrder ==
    SourceTried =>
        /\ IsSome(info.hex) =>
              result = Ok([raw |-> Unwrap(info.hex), source |-> "Hex"])
        /\ ~IsSome(info.hex) /\ IsSome(info.base64) =>
              result = Ok([raw |-> Unwrap(info.base64), source |-> "Base64"])
        /\ ~IsSome(info.hex) /\ ~IsSome(info.base64) /\ IsSome(info.file)
             /\ Unwrap(info.file).readable =>
              result = Ok([raw |-> Unwrap(info.file).data, source |-> "File"])
        /\ ~IsSome(info.hex) /\ ~IsSome(info.base64) /\ ~IsSome(info.file) =>
              result = Err("Can't load PSET: invalid hex, base64 or unknown file")

(* C11 witness: text that is hex, base64 and the name of a file, with      *)
(* three different contents, is loaded as Hex.                             *)
C11_Witness ==
    /\ SourceTried
    /\ IsSome(info.hex) /\ IsSome(info.base64) /\ IsSome(info.file)
    /\ Unwrap(info.hex) # Unwrap(info.base64)
    /\ Unwrap(info.file).readable /\ Unwrap(info.file).data # Unwrap(info.hex)
    /\ result.ok /\ result.val.source = "Hex"

----------------------------------------------------------------------------
(* exec_rawsign: cmd/pset.rs *)

(* A transaction output as the UTXO fields hold it, and a transaction by   *)
(* its outputs.                                                            *)
TxOut(script_pubkey, value) == [script_pubkey |-> script_pubkey, value |-> value]
TxOf(outputs) == [output |-> outputs]

(* Script hashes, kept apart by a leading byte, and the script_pubkeys     *)
(* committing to a script.                                                 *)
Sha256(bytes) == <<200>> \o bytes
Hash160(bytes) == <<201>> \o bytes
P2wsh(script) == <<0>> \o push_slice(Sha256(script))
P2sh(script) == <<169>> \o push_slice(Hash160(script)) \o <<135>>

(* The scripts the interpreter reads as Miniscript: OP_1 and               *)
(* <key> OP_CHECKSIG.                                                      *)
MiniscriptScripts == {<<81>>, <<1, 2, 172>>}

(* miniscript Interpreter::from_txdata(spk, script_sig, witness, 0, 0):    *)
(* the spending data must match the script_pubkey and the script spent     *)
(* must be a Miniscript.                                                   *)
Interpreter_from_txdata(spk, script_sig, witness) ==
    IF spk # <<>> /\ spk[1] = 0
    THEN IF script_sig = <<>> /\ Len(witness) = 1 /\ spk = P2wsh(witness[1])
            /\ witness[1] \in MiniscriptScripts
         THEN Some([script |-> witness[1]]) ELSE None
    ELSE IF spk # <<>> /\ spk[1] = 169
    THEN IF witness = <<>> /\ script_sig # <<>>
            /\ script_sig = push_slice(Tail(script_sig))
            /\ spk = P2sh(Tail(script_sig)) /\ Tail(script_sig) \in MiniscriptScripts
         THEN Some([script |-> Tail(script_sig)]) ELSE None
    ELSE IF script_sig = <<>> /\ witness = <<>> /\ spk \in MiniscriptScripts
    THEN Some([script |-> spk]) ELSE None

(* Pset::extract_tx: the unsigned transaction, when it is complete. *)
extract_tx(p) ==
    CASE p.global.tx = "tx1" -> Some(1)
      [] p.global.tx = "tx2" -> Some(2)
      [] OTHER -> None

(* SigHashType as u8. *)
sighash_u8(sht) ==
    CASE sht = "ALL" -> 1
      [] sht = "NONE" -> 2
      [] sht = "SINGLE" -> 3
      [] sht = "ALL|ANYONECANPAY" -> 129
      [] sht = "NONE|ANYONECANPAY" -> 130
      [] sht = "SINGLE|ANYONECANPAY" -> 131

(* Interpreter::sighash_message(tx, i, amt, sighash_ty). *)
sighash_message(tx, i, amt, sighash_ty) == <<tx, i, amt, sighash_u8(sighash_ty)>>

(* PrivateKey::from_str (WIF), else SecretKey::from_str (hex). *)
PrivateKey_from_str(text) ==
    CASE text = "wif_a" -> Some(10)
      [] text = "wif_b" -> Some(11)
      [] OTHER -> None
SecretKey_from_str(text) ==
    CASE text = "hex_a" -> Some(10)
      [] text = "hex_b" -> Some(11)
      [] OTHER -> None

(* bitcoin::PublicKey { compressed, key: PublicKey::from_secret_key(sk) }: *)
(* the two encodings of one key are two keys of a map.                     *)
PublicKey_of(sk, compressed) ==
    CASE sk = 10 /\ compressed -> "pk_a"
      [] sk = 10 /\ ~compressed -> "pk_a_uncompressed"
      [] sk = 11 /\ compressed -> "pk_b"
      [] sk = 11 /\ ~compressed -> "pk_b_uncompressed"

(* secp.sign(&msg, &sk).serialize_der(): deterministic in key and message. *)
sign_der(msg, sk) == <<48, sk>> \o msg

(* str::parse::<bool>. *)
bool_parse(text) ==
    CASE text = "true" -> Some(TRUE)
      [] text = "false" -> Some(FALSE)
      [] OTHER -> None

(* The lookup ignoring witness_utxo. *)
get_spk_amt_non_witness_first(p, index) ==
    IF index + 1 > Len(p.inputs) THEN Err("index out of bounds")
    ELSE LET inp == p.inputs[index + 1]
         IN IF IsSome(inp.non_witness_utxo)
            THEN LET vout == inp.previous_output_index
                     outputs == Unwrap(inp.non_witness_utxo).output
                 IN IF vout + 1 > Len(outputs) THEN Err("index out of bounds")
                    ELSE Ok(outputs[vout + 1])
            ELSE IF IsSome(inp.witness_utxo) THEN Ok(Unwrap(inp.witness_utxo))
            ELSE Err("Pset missing both witness and non-witness utxo")

(* The (script_pubkey, amount) of input index. *)
get_spk_amt(p, index) ==
    IF index + 1 > Len(p.inputs) THEN Err("index out of bounds")
    ELSE LET inp == p.inputs[index + 1]
         IN IF IsSome(inp.witness_utxo) THEN Ok(Unwrap(inp.witness_utxo))
            ELSE IF IsSome(inp.non_witness_utxo)
            THEN LET vout == inp.previous_output_index
                     outputs == Unwrap(inp.non_witness_utxo).output
                 IN IF vout + 1 > Len(outputs) THEN Err("index out of bounds")
                    ELSE Ok(outputs[vout + 1])
            ELSE Err("Pset missing both witness and non-witness utxo")

(* The signature of input i, lines 480-511; the key is read after the      *)
(* message is built.                                                       *)
sign_input(i, compressed, priv_key, p) ==
    IF i >= Len(p.inputs) THEN Err("Pset input index out of range")
    ELSE LET utxo == get_spk_amt(p, i)
             inp == p.inputs[i + 1]
             script_sig == IF IsSome(inp.redeem_script)
                           THEN push_slice(Unwrap(inp.redeem_script)) ELSE <<>>
             witness == IF IsSome(inp.witness_script)
                        THEN <<Unwrap(inp.witness_script)>> ELSE <<>>
         IN IF ~utxo.ok THEN utxo
            ELSE IF ~IsSome(Interpreter_from_txdata(utxo.val.script_pubkey,
                                                    script_sig, witness))
            THEN Err("Witness/Redeem Script is not a Miniscript")
            ELSE IF ~IsSome(extract_tx(p)) THEN Err("Unable to extract tx")
            ELSE LET sighash_ty == unwrap_or(inp.sighash_type, "ALL")
                     msg == sighash_message(Unwrap(extract_tx(p)), i,
                                            utxo.val.value, sighash_ty)
                     sk == IF IsSome(PrivateKey_from_str(priv_key))
                           THEN PrivateKey_from_str(priv_key)
                           ELSE SecretKey_from_str(priv_key)
                 IN IF ~IsSome(sk) THEN Err("invalid WIF/hex private key")
                    ELSE Ok([pk |-> PublicKey_of(Unwrap(sk), compressed),
                             btc_sig |-> Append(sign_der(msg, Unwrap(sk)),
                                                sighash_u8(sighash_ty))])

(* The insert into a fresh map: the entries input i already holds are lost. *)
rawsign_fresh_map(matches, p) ==
    LET i == usize_parse(matches.input_idx)
        compressed == bool_parse(matches.compressed)
    IN IF ~IsSome(i)
       THEN [res |-> Err("input-idx must be a positive integer"), pset |-> p]
       ELSE IF ~IsSome(compressed)
       THEN [res |-> Err("Compressed must be boolean"), pset |-> p]
       ELSE LET signed == sign_input(Unwrap(i), Unwrap(compressed),
                                     matches.priv_key, p)
            IN IF ~signed.ok THEN [res |-> signed, pset |-> p]
               ELSE [res |-> Ok(<<>>),
                     pset |-> [p EXCEPT !.inputs[Unwrap(i) + 1].partial_sigs =
                                  Map_insert(EmptyMap, signed.val.pk,
                                             signed.val.btc_sig)]]

(* The insert keeping an entry the map already holds for the key. *)
rawsign_keep_existing(matches, p) ==
    LET i == usize_parse(matches.input_idx)
        compressed == bool_parse(matches.compressed)
    IN IF ~IsSome(i)
       THEN [res |-> Err("input-idx must be a positive integer"), pset |-> p]
       ELSE IF ~IsSome(compressed)
       THEN [res |-> Err("Compressed must be boolean"), pset |-> p]
       ELSE LET signed == sign_input(Unwrap(i), Unwrap(compressed),
                                     matches.priv_key, p)
            IN IF ~signed.ok THEN [res |-> signed, pset |-> p]
               ELSE [res |-> Ok(<<>>),
                     pset |-> IF signed.val.pk
                                    \in DOMAIN p.inputs[Unwrap(i) + 1].partial_sigs
                              THEN p
                              ELSE [p EXCEPT !.inputs[Unwrap(i) + 1].partial_sigs =
                                       Map_insert(@, signed.val.pk,
                                                  signed.val.btc_sig)]]

(* exec_rawsign lines 474-518: the arguments parsed, the signature made    *)
(* and inserted into the partial sigs of input i.                          *)
rawsign(matches, p) ==
    LET i == usize_parse(matches.input_idx)
        compressed == bool_parse(matches.compressed)
    IN IF ~IsSome(i)
       THEN [res |-> Err("input-idx must be a positive integer"), pset |-> p]
       ELSE IF ~IsSome(compressed)
       THEN [res |-> Err("Compressed must be boolean"), pset |-> p]
       ELSE LET signed == sign_input(Unwrap(i), Unwrap(compressed),
                                     matches.priv_key, p)
            IN IF ~signed.ok THEN [res |-> signed, pset |-> p]
               ELSE [res |-> Ok(<<>>),
                     pset |-> [p EXCEPT !.inputs[Unwrap(i) + 1].partial_sigs =
                                  Map_insert(@, signed.val.pk, signed.val.btc_sig)]]

----------------------------------------------------------------------------
(* Specification of exec_rawsign. *)

SignedInput ==
    [EmptyPsetInput EXCEPT !.witness_utxo = Some(TxOut(P2wsh(<<81>>), 5)),
                           !.witness_script = Some(<<81>>)]
PrevTx == TxOf(<<TxOut(P2wsh(<<81>>), 7), TxOut(P2wsh(<<81>>), 9)>>)

SignPartialSigs ==
    {EmptyMap, Map_insert(EmptyMap, "pk_a", SigA), Map_insert(EmptyMap, "pk_b", SigB),
     Map_insert(Map_insert(EmptyMap, "pk_a", SigA), "pk_b", SigB),
     Map_insert(EmptyMap, "pk_a_uncompressed", SigA)}

SignPsets ==
    {Pset("tx1", <<[SignedInput EXCEPT !.witness_utxo = wu, !.non_witness_utxo = nwu,
                                       !.previous_output_index = vout]>>,
          <<EmptyPsetOutput>>)
        : wu \in Opt({TxOut(P2wsh(<<81>>), 5)}), nwu \in Opt({PrevTx}), vout \in 0..2}
    \cup {Pset(tx, <<[SignedInput EXCEPT !.witness_utxo = Some(TxOut(spk, 5)),
                                         !.redeem_script = rs, !.witness_script = ws,
                                         !.sighash_type = sht]>>,
               <<EmptyPsetOutput>>)
        : tx \in {"tx1", "tx_incomplete"},
          spk \in {P2wsh(<<81>>), P2sh(<<81>>), <<81>>, <<106>>, P2wsh(<<106>>)},
          rs \in Opt({<<81>>}), ws \in Opt({<<81>>, <<106>>}),
          sht \in Opt({"SINGLE", "ALL|ANYONECANPAY"})}
    \cup {Pset("tx2", <<[SignedInput EXCEPT !.partial_sigs = a],
                        [SignedInput EXCEPT !.partial_sigs = b,
                                            !.sighash_type = Some("NONE")]>>,
               <<EmptyPsetOutput, EmptyPsetOutput>>)
        : a \in SignPartialSigs, b \in {EmptyMap, Map_insert(EmptyMap, "pk_a", SigB)}}

SignBasePset == Pset("tx1", <<SignedInput>>, <<EmptyPsetOutput>>)

SignFlags ==
    {[NoFlag EXCEPT !.hex = Some(serialize_pset(SignBasePset))],
     [NoFlag EXCEPT !.base64 = Some(serialize_pset(SignBasePset))],
     [NoFlag EXCEPT !.file = Some(FileOf(serialize_pset(SignBasePset)))],
     [NoFlag EXCEPT !.hex = Some(serialize_pset(SignBasePset)),
                    !.base64 = Some(<<"junk">>),
                    !.file = Some(FileOf(serialize_pset(PsetTx2)))],
     [NoFlag EXCEPT !.base64 = Some(serialize_pset(SignBasePset)),
                    !.file = Some(FileOf(serialize_pset(PsetTx2)))],
     [NoFlag EXCEPT !.base64 = Some(<<"junk">>)],
     [NoFlag EXCEPT !.file = Some(Unreadable)],
     NoFlag}

BaseSign ==
    [cmd |-> "rawsign",
     pset |-> [NoFlag EXCEPT !.hex = Some(serialize_pset(SignBasePset))],
     input_idx |-> "0", priv_key |-> "wif_a", compressed |-> "true",
     raw_stdout |-> FALSE, output |-> None, writable |-> TRUE]

SignMatches ==
    {[BaseSign EXCEPT !.pset = [NoFlag EXCEPT !.hex = Some(serialize_pset(p))],
                      !.input_idx = i, !.priv_key = k, !.compressed = c]
        : p \in SignPsets, i \in {"0", "1", "x"},
          k \in {"wif_a", "hex_a", "hex_b", "junk"}, c \in {"true", "false", "yes"}}
    \cup {[BaseSign EXCEPT !.pset = f, !.input_idx = i, !.output = path,
                           !.raw_stdout = r, !.writable = w]
        : f \in SignFlags, i \in {"0", "1"}, path \in Opt({"signed.pset"}),
          r \in BOOLEAN, w \in BOOLEAN}

InitSign ==
    /\ pc = "start"
    /\ info \in SignMatches
    /\ result = Err("")
    /\ pset = <<>>
    /\ idx = 0
    /\ out = <<>>

(* lines 471-472: the PSET is read and deserialized. *)
SignLoad ==
    /\ info.cmd = "rawsign"
    /\ pc = "start"
    /\ LET loaded == load_part(info.pset)
       IN IF loaded.ok
          THEN /\ pset' = loaded.val
               /\ pc' = "loaded"
               /\ UNCHANGED result
          ELSE /\ result' = loaded
               /\ pc' = "failed"
               /\ UNCHANGED pset
    /\ UNCHANGED <<info, idx, out>>

(* lines 474-518: the input is signed and the signature inserted. *)
Sign ==
    /\ info.cmd = "rawsign"
    /\ pc = "loaded"
    /\ LET signed == rawsign(info, pset)
       IN /\ pset' = signed.pset
          /\ result' = signed.res
          /\ pc' = IF signed.res.ok THEN "signed" ELSE "failed"
          /\ idx' = unwrap_or(usize_parse(info.input_idx), 0)
    /\ UNCHANGED <<info, out>>

(* lines 519-537: the signed PSET is written. *)
SignWrite ==
    /\ info.cmd = "rawsign"
    /\ pc = "signed"
    /\ Written(write_back(info, file_or_raw(info.pset).val.source,
                          serialize_pset(pset), <<"\n">>))
    /\ UNCHANGED <<info, pset, idx>>

NextSign == SignLoad \/ Sign \/ SignWrite

SpecSign == InitSign /\ [][NextSign]_vars

----------------------------------------------------------------------------
(* exec_finalize: cmd/pset.rs *)

(* miniscript pset::finalize on one input: its UTXO is known, the script   *)
(* spent is a Miniscript and the partial sigs satisfy it; the input then   *)
(* holds the final script-sig and witness alone.                           *)
finalize_input(p, i) ==
    LET inp == p.inputs[i]
        utxo == get_spk_amt(p, i - 1)
        script_sig == IF IsSome(inp.redeem_script)
                      THEN push_slice(Unwrap(inp.redeem_script)) ELSE <<>>
        witness == IF IsSome(inp.witness_script)
                   THEN <<Unwrap(inp.witness_script)>> ELSE <<>>
        interp == IF utxo.ok
                  THEN Interpreter_from_txdata(utxo.val.script_pubkey,
                                               script_sig, witness)
                  ELSE None
    IN IF ~IsSome(interp) THEN None
       ELSE IF Unwrap(interp).script = <<81>>
       THEN Some([inp EXCEPT !.partial_sigs = EmptyMap,
                             !.final_script_sig = Some(script_sig),
                             !.final_script_witness = Some(witness)])
       ELSE IF "pk_b" \in DOMAIN inp.partial_sigs
       THEN Some([inp EXCEPT !.partial_sigs = EmptyMap,
                             !.final_script_sig = Some(script_sig),
                             !.final_script_witness =
                                 Some(<<inp.partial_sigs["pk_b"]>> \o witness)])
       ELSE None

finalize(p) ==
    IF \A i \in 1..Len(p.inputs) : IsSome(finalize_input(p, i))
    THEN Some([p EXCEPT !.inputs =
                  [i \in 1..Len(p.inputs) |-> Unwrap(finalize_input(p, i))]])
    ELSE None

(* serialize of the extracted transaction, final witnesses included. *)
serialize_tx(p) ==
    <<"tx", Unwrap(extract_tx(p)),
      [i \in 1..Len(p.inputs) |-> <<p.inputs[i].final_script_sig,
                                    p.inputs[i].final_script_witness>>]>>

FinalizeMatches ==
    {[cmd |-> "finalize", pset |-> [NoFlag EXCEPT !.hex = Some(serialize_pset(p))],
      raw_stdout |-> r] : p \in SignPsets, r \in BOOLEAN}
    \cup {[cmd |-> "finalize", pset |-> f, raw_stdout |-> r]
             : f \in SignFlags, r \in BOOLEAN}

InitFinalize ==
    /\ pc = "start"
    /\ info \in FinalizeMatches
    /\ result = Err("")
    /\ pset = <<>>
    /\ idx = 0
    /\ out = <<>>

(* lines 378-379: the PSET is read and deserialized. *)
FinalizeLoad ==
    /\ info.cmd = "finalize"
    /\ pc = "start"
    /\ LET loaded == load_part(info.pset)
       IN IF loaded.ok
          THEN /\ pset' = loaded.val
               /\ pc' = "loaded"
               /\ UNCHANGED result
          ELSE /\ result' = loaded
               /\ pc' = "failed"
               /\ UNCHANGED pset
    /\ UNCHANGED <<info, idx, out>>

(* line 384: every input is finalized in place. *)
Finalize ==
    /\ info.cmd = "finalize"
    /\ pc = "loaded"
    /\ LET finalized == finalize(pset)
       IN IF IsSome(finalized)
          THEN /\ pset' = Unwrap(finalized)
               /\ pc' = "finalized"
               /\ UNCHANGED result
          ELSE /\ result' = Err("failed to finalize")
               /\ pc' = "failed"
               /\ UNCHANGED pset
    /\ UNCHANGED <<info, idx, out>>

(* lines 386-391: the transaction is extracted and printed. *)
FinalizeWrite ==
    /\ info.cmd = "finalize"
    /\ pc = "finalized"
    /\ IF ~IsSome(extract_tx(pset))
       THEN /\ result' = Err("Unable to extract tx")
            /\ pc' = "failed"
            /\ UNCHANGED out
       ELSE LET finalized_raw == serialize_tx(pset)
            IN Written(IF info.raw_stdout
                       THEN write_stdout(finalized_raw, finalized_raw)
                       ELSE write_stdout(hex_encode(finalized_raw), finalized_raw))
    /\ UNCHANGED <<info, pset, idx>>

NextFinalize == FinalizeLoad \/ Finalize \/ FinalizeWrite

SpecFinalize == InitFinalize /\ [][NextFinalize]_vars

----------------------------------------------------------------------------
(* The four PSET commands that write a result. *)

InitPset == InitEdit \/ InitMerge \/ InitSign \/ InitFinalize

NextPset == NextEdit \/ NextMerge \/ NextSign \/ NextFinalize

SpecPset == InitPset /\ [][NextPset]_vars

----------------------------------------------------------------------------
(* Claims on the written result. *)

WritesBack == info.cmd \in {"edit", "rawsign"}
SourceKind == file_or_raw(info.pset).val.source
ExplicitDestination == IsSome(info.output) \/ info.raw_stdout
(* The text d is the encoding e of raw, a line end allowed after it. *)
IsTextOf(d, e) == Len(d) >= Len(e) /\ SubSeq(d, 1, Len(e)) = e
                     /\ \A j \in (Len(e) + 1)..Len(d) : d[j] = "\n"

(* C12: a successful edit or signing with no explicit destination emits    *)
(* the PSET in the form it was loaded in (hex text for Hex, base64 text   *)
(* for Base64, the original path overwritten for File); with an output    *)
(* path or the raw-byte stream given, the result goes to that destination *)
(* alone and the source kind plays no part.                                *)
C12_OutputFollowsSource ==
    (WritesBack /\ pc = "done") =>
        /\ Len(out) = 1
        /\ IsSome(info.output) =>
              out[1] = FileWrite(Unwrap(info.output), serialize_pset(pset))
        /\ ~IsSome(info.output) /\ info.raw_stdout =>
              out[1] = Stdout(serialize_pset(pset))
        /\ ~ExplicitDestination /\ SourceKind = "Hex" =>
              /\ out[1].to = "stdout"
              /\ IsTextOf(out[1].data, hex_encode(serialize_pset(pset)))
        /\ ~ExplicitDestination /\ SourceKind = "Base64" =>
              /\ out[1].to = "stdout"
              /\ IsTextOf(out[1].data, base64_encode(serialize_pset(pset)))
        /\ ~ExplicitDestination /\ SourceKind = "File" =>
              out[1] = FileWrite(info.pset.name, serialize_pset(pset))

(* C12 witness: a PSET read from a file is signed with an output path      *)
(* given, and the file it came from is not written.                        *)
C12_Witness ==
    /\ WritesBack /\ pc = "done"
    /\ SourceKind = "File" /\ IsSome(info.output)
    /\ out = <<FileWrite("signed.pset", serialize_pset(pset))>>

----------------------------------------------------------------------------
(* Claims on the edit target. *)

TargetTaken ==
    info.cmd = "edit" /\ load_part(info.pset).ok /\ pc \in {"edited", "failed", "done"}
OnlyInput == IsSome(info.input_idx) /\ ~IsSome(info.output_idx)
OnlyOutput == ~IsSome(info.input_idx) /\ IsSome(info.output_idx)
InputIndex == usize_parse(Unwrap(info.input_idx))
OutputIndex == usize_parse(Unwrap(info.output_idx))

(* C14: exec_edit edits exactly one input or one output: both indexes or   *)
(* neither is an ambiguous-target failure, input-idx alone runs edit_input *)
(* only, output-idx alone runs edit_output only, and an index not below    *)
(* the number of inputs (outputs) is an out-of-range failure.              *)
C14_EditTarget ==
    TargetTaken =>
        /\ IsSome(info.input_idx) /\ IsSome(info.output_idx) =>
              /\ pc = "failed" /\ pset = LoadedPset
              /\ result.err = "can only edit an input or an output at a time"
        /\ ~IsSome(info.input_idx) /\ ~IsSome(info.output_idx) =>
              /\ pc = "failed" /\ pset = LoadedPset
              /\ result.err = "no input or output index provided"
        /\ OnlyInput =>
              /\ pset.outputs = LoadedPset.outputs
              /\ IsSome(InputIndex) =>
                    /\ pset = edit_input(Unwrap(InputIndex), info, LoadedPset).pset
                    /\ Unwrap(InputIndex) >= Len(LoadedPset.inputs) =>
                          /\ pc = "failed"
                          /\ result.err = "input index out of range"
        /\ OnlyOutput =>
              /\ pset.inputs = LoadedPset.inputs
              /\ IsSome(OutputIndex) =>
                    /\ pset = edit_output(Unwrap(OutputIndex), info, LoadedPset).pset
                    /\ Unwrap(OutputIndex) >= Len(LoadedPset.outputs) =>
                          /\ pc = "failed"
                          /\ result.err = "output index out of range"

(* C14 witness: output-idx alone is given with keypaths to set, the output *)
(* is edited and written, no input is touched.                             *)
C14_Witness ==
    /\ TargetTaken /\ OnlyOutput /\ pc = "done"
    /\ IsSome(info.hd_keypaths)
    /\ pset.outputs # LoadedPset.outputs
    /\ pset.inputs = LoadedPset.inputs

----------------------------------------------------------------------------
(* Claims on repeating an edit. *)

EditDone == info.cmd = "edit" /\ pc \in {"edited", "done"}
(* The same invocation applied once more to the PSET it produced. *)
EditAgain ==
    IF OnlyInput THEN edit_input(Unwrap(InputIndex), info, pset)
    ELSE edit_output(Unwrap(OutputIndex), info, pset)
(* An additive entry that the target reads and that no replace of the same *)
(* map precedes.                                                           *)
AddsToHeldMap ==
    \/ OnlyInput /\ info.partial_sigs_add # <<>> /\ ~IsSome(info.partial_sigs)
    \/ info.hd_keypaths_add # <<>> /\ ~IsSome(info.hd_keypaths)
DuplicateKeyErrors ==
    {"public key is already in partial sigs", "public key is already in HD keypaths"}

(* C15: editing any field the editor accepts to the value it already holds *)
(* succeeds and leaves the serialized PSET unchanged, so the same edit     *)
(* applied twice gives the bytes of applying it once.                      *)
C15_EditIdempotent ==
    EditDone =>
        /\ EditAgain.res.ok
        /\ serialize_pset(EditAgain.pset) = serialize_pset(pset)

(* C15 as the code has it: the same holds of every edit whose additive     *)
(* entries, if any, follow a replace of their map in the same invocation;  *)
(* an additive entry put into the map the PSET holds cannot be repeated,   *)
(* the second application fails with the duplicate-key error.              *)
C15_EditIdempotentAmended ==
    EditDone =>
        IF AddsToHeldMap
        THEN ~EditAgain.res.ok /\ EditAgain.res.err \in DuplicateKeyErrors
        ELSE /\ EditAgain.res.ok
             /\ serialize_pset(EditAgain.pset) = serialize_pset(pset)

(* C15 witness: a partial sig was added to an input that held none, and    *)
(* the PSET now holds it.                                                  *)
C15_Witness ==
    /\ EditDone /\ OnlyInput /\ AddsToHeldMap
    /\ info.partial_sigs_add # <<>>
    /\ pset.inputs[idx + 1].partial_sigs # LoadedPset.inputs[idx + 1].partial_sigs

----------------------------------------------------------------------------
(* Claims on signing. *)

(* The arguments of exec_rawsign were read and the signing step was taken. *)
SignTried ==
    /\ info.cmd = "rawsign" /\ load_part(info.pset).ok
    /\ IsSome(usize_parse(info.input_idx)) /\ IsSome(bool_parse(info.compressed))
    /\ pc \in {"signed", "failed", "done"}
SignIndex == Unwrap(usize_parse(info.input_idx))
SignedOk == SignTried /\ pc \in {"signed", "done"}
LoadedInput == LoadedPset.inputs[SignIndex + 1]
SecretKey ==
    IF IsSome(PrivateKey_from_str(info.priv_key))
    THEN Unwrap(PrivateKey_from_str(info.priv_key))
    ELSE Unwrap(SecretKey_from_str(info.priv_key))
DerivedPubkey == PublicKey_of(SecretKey, Unwrap(bool_parse(info.compressed)))
SighashOf(inp) == unwrap_or(inp.sighash_type, "ALL")
(* The signature over the message that commits to amount amt. *)
SignatureOver(amt) ==
    Append(sign_der(sighash_message(Unwrap(extract_tx(LoadedPset)), SignIndex, amt,
                                    SighashOf(LoadedInput)),
                    SecretKey),
           sighash_u8(SighashOf(LoadedInput)))
NewSignature == pset.inputs[SignIndex + 1].partial_sigs[DerivedPubkey]

C17_SigningOverwrites ==
    /\ SignedOk =>
          /\ DerivedPubkey \in DOMAIN pset.inputs[SignIndex + 1].partial_sigs
          /\ NewSignature = SignatureOver(get_spk_amt(LoadedPset, SignIndex).val.value)
          /\ DOMAIN pset.inputs[SignIndex + 1].partial_sigs
                = DOMAIN LoadedInput.partial_sigs \cup {DerivedPubkey}
          /\ rawsign(info, pset).res.ok
          /\ rawsign(info, pset).pset = pset
    /\ SignTried =>
          result.err \notin DuplicateKeyErrors

(* C17 witness: the input already held a signature of the derived pubkey,  *)
(* another one, and signing replaced it.                                   *)
C17_Witness ==
    /\ SignedOk
    /\ DerivedPubkey \in DOMAIN LoadedInput.partial_sigs
    /\ LoadedInput.partial_sigs[DerivedPubkey] # NewSignature
    /\ DOMAIN pset.inputs[SignIndex + 1].partial_sigs = DOMAIN LoadedInput.partial_sigs

----------------------------------------------------------------------------
(* Claims on the fields of the built input. *)

InputBuilt == pc = "done" /\ "sequence" \in DOMAIN result.val

(* C18: an InputRecord without a sequence is built into an input whose     *)
(* sequence is 0xffffffff, all bits set; a record with a sequence keeps    *)
(* exactly that value.                                                     *)
C18_SequenceDefault ==
    InputBuilt =>
        /\ ~IsSome(info.sequence) => result.val.sequence = <<255, 255, 255, 255>>
        /\ IsSome(info.sequence) => result.val.sequence = Unwrap(info.sequence)

(* C18 witness: an input is built from a record that gives a sequence      *)
(* other than the default, and holds it.                                   *)
C18_Witness ==
    /\ InputBuilt
    /\ IsSome(info.sequence)
    /\ result.val.sequence = <<254, 255, 255, 255>>

----------------------------------------------------------------------------
(* Claims on script assembly. *)

TxTried == pc \in {"done", "failed"} /\ "outputs" \in DOMAIN info
AsmOnly(s) == ~IsSome(s.hex) /\ IsSome(s.asm)
InputByAssembly(i) == IsSome(i.script_sig) /\ AsmOnly(Unwrap(i.script_sig))
OutputByAssembly(o) ==
    \/ HasScript(o) /\ AsmOnly(Unwrap(o.script_pub_key))
    \/ FromPegout(o) /\ AsmOnly(Unwrap(o.pegout_data).script_pub_key)
ByAssembly ==
    \/ IsSome(info.inputs)
          /\ \E i \in 1..Len(Unwrap(info.inputs)) : InputByAssembly(Unwrap(info.inputs)[i])
    \/ IsSome(info.outputs)
          /\ \E i \in 1..Len(Unwrap(info.outputs)) : OutputByAssembly(Unwrap(info.outputs)[i])
(* The same record with every script given by assembly given by hex too. *)
WithHex(s) == IF AsmOnly(s) THEN [s EXCEPT !.hex = Some(<<81>>)] ELSE s
InputWithHex(i) ==
    IF IsSome(i.script_sig)
    THEN [i EXCEPT !.script_sig = Some(WithHex(Unwrap(i.script_sig)))] ELSE i
OutputWithHex(o) ==
    IF HasScript(o)
    THEN [o EXCEPT !.script_pub_key = Some(WithHex(Unwrap(o.script_pub_key)))]
    ELSE IF HasPegout(o)
    THEN [o EXCEPT !.pegout_data =
             Some([Unwrap(o.pegout_data) EXCEPT !.script_pub_key = WithHex(@)])]
    ELSE o
InfoWithHex ==
    [info EXCEPT
        !.inputs = IF IsSome(info.inputs)
                   THEN Some([i \in 1..Len(Unwrap(info.inputs)) |->
                                 InputWithHex(Unwrap(info.inputs)[i])])
                   ELSE None,
        !.outputs = IF IsSome(info.outputs)
                    THEN Some([i \in 1..Len(Unwrap(info.outputs)) |->
                                  OutputWithHex(Unwrap(info.outputs)[i])])
                    ELSE None]

(* C19: a script given by assembly is never decoded: no transaction is     *)
(* built from a record whose output script, pegout inner script or input   *)
(* script-sig is resolved from assembly, and where the assembly is all     *)
(* that stands in the way the failure is the unsupported-feature one.      *)
C19_AssemblyNeverDecoded ==
    (TxTried /\ ByAssembly) =>
        /\ pc = "failed"
        /\ create_transaction(InfoWithHex).ok =>
              result.err = "Decoding script assembly is not yet supported."

(* C19 witness: an output whose script_pub_key gives assembly and an       *)
(* address but no hex is refused as unsupported.                           *)
C19_Witness ==
    /\ TxTried /\ pc = "failed"
    /\ IsSome(info.outputs) /\ Len(Outs) = 1
    /\ HasScript(Outs[1]) /\ AsmOnly(Unwrap(Outs[1].script_pub_key))
    /\ IsSome(Unwrap(Outs[1].script_pub_key).unblinded_address)
    /\ result.err = "Decoding script assembly is not yet supported."

----------------------------------------------------------------------------
(* Claims on what each tag requires of the record. *)

MissingScalar(kind) ==
    CASE kind = "value" -> "Field \"value\" is required for explicit values."
      [] kind = "asset" -> "Field \"asset\" is required for explicit assets."
      [] kind = "nonce" -> "Field \"nonce\" is required for explicit nonces."
MissingCommitment(kind) ==
    CASE kind = "value" -> "Missing commitment"
      [] kind = "asset" -> "Missing asset commitment"
      [] kind = "nonce" -> "Missing nonce commitment"
InvalidCommitment(kind) ==
    CASE kind = "value" -> "Invalid Confidential commitment"
      [] kind = "asset" -> "Invalid asset commitment"
      [] kind = "nonce" -> "Invalid Nonce Pubkey"
(* C20: for value, asset and nonce alike, tag Explicit fails for a missing *)
(* required field when the scalar is absent and otherwise yields Explicit  *)
(* of exactly that scalar; tag Confidential fails when the commitment is   *)
(* absent or is no point of the kind, and otherwise yields it; tag Null    *)
(* needs no payload and yields Null.                                       *)
C20_DecodingRequirements ==
    Decoded =>
        /\ info.rec.type_ = "Null" =>
              result.ok /\ result.val.tag = "Null" /\ result.val.v = <<>>
        /\ info.rec.type_ = "Explicit" =>
              IF IsSome(Scalar(info))
              THEN /\ result.ok /\ result.val.tag = "Explicit"
                   /\ result.val.v[1] = IF info.kind = "nonce"
                                        THEN Unwrap(Scalar(info)).bytes
                                        ELSE Unwrap(Scalar(info))
              ELSE ~result.ok /\ result.err = MissingScalar(info.kind)
        /\ info.rec.type_ = "Confidential" =>
              IF ~IsSome(info.rec.commitment)
              THEN ~result.ok /\ result.err = MissingCommitment(info.kind)
              ELSE IF IsPoint(info.kind, Unwrap(info.rec.commitment))
              THEN /\ result.ok /\ result.val.tag = "Confidential"
                   /\ result.val.v[1] = PointBytes(Unwrap(info.rec.commitment))
              ELSE ~result.ok /\ result.err = InvalidCommitment(info.kind)

(* C20 witness: an asset record with tag Confidential whose commitment is  *)
(* a well formed value commitment, no generator, is refused as invalid.    *)
C20_Witness ==
    /\ pc = "failed"
    /\ info.kind = "asset" /\ info.rec.type_ = "Confidential"
    /\ info.rec.commitment = Some(ValueCommitment)
    /\ result.err = "Invalid asset commitment"

----------------------------------------------------------------------------
(* Encoding the confidential fields: src/confidential.rs, get_info *)

(* ConfidentialAssetLabel::from_asset_id knows one id, that of L-BTC, for  *)
(* which "asset_a" stands.                                                 *)
from_asset_id(id) == IF id = "asset_a" THEN Some("liquid_bitcoin") ELSE None

Value_get_info(x) ==
    [type_ |-> CASE x.tag = "Null" -> "Null"
                 [] x.tag = "Explicit" -> "Explicit"
                 [] x.tag = "Confidential" -> "Confidential",
     value |-> IF x.tag = "Explicit" THEN Some(x.v[1]) ELSE None,
     commitment |-> IF x.tag = "Confidential" THEN Some(x.v[1]) ELSE None]

Asset_get_info(x) ==
    [type_ |-> CASE x.tag = "Null" -> "Null"
                 [] x.tag = "Explicit" -> "Explicit"
                 [] x.tag = "Confidential" -> "Confidential",
     asset |-> IF x.tag = "Explicit" THEN Some(x.v[1]) ELSE None,
     commitment |-> IF x.tag = "Confidential" THEN Some(x.v[1]) ELSE None,
     label |-> IF x.tag = "Explicit" THEN from_asset_id(x.v[1]) ELSE None]

Nonce_get_info(x) ==
    [type_ |-> CASE x.tag = "Null" -> "Null"
                 [] x.tag = "Explicit" -> "Explicit"
                 [] x.tag = "Confidential" -> "Confidential",
     nonce |-> IF x.tag = "Explicit" THEN Some([bytes |-> x.v[1]]) ELSE None,
     commitment |-> IF x.tag = "Confidential" THEN Some(x.v[1]) ELSE None]

(* A record is decoded and the decoded value is encoded again; the record  *)
(* it gives is the output of the run.                                      *)
Encoded(rec) ==
    /\ pc' = "encoded"
    /\ out' = <<rec>>
    /\ UNCHANGED <<info, result, pset, idx>>

EncodeValue ==
    /\ pc = "done" /\ info.kind = "value"
    /\ Encoded(Value_get_info(result.val))

EncodeAsset ==
    /\ pc = "done" /\ info.kind = "asset"
    /\ Encoded(Asset_get_info(result.val))

EncodeNonce ==
    /\ pc = "done" /\ info.kind = "nonce"
    /\ Encoded(Nonce_get_info(result.val))

NextRoundTrip ==
    \/ DecodeValue \/ DecodeAsset \/ DecodeNonce
    \/ EncodeValue \/ EncodeAsset \/ EncodeNonce

SpecRoundTrip == InitConf /\ [][NextRoundTrip]_vars

(* Decoding a record of the kind. *)
Redecoded(kind, rec) ==
    CASE kind = "value" -> create_confidential_value(rec)
      [] kind = "asset" -> create_confidential_asset(rec)
      [] kind = "nonce" -> create_confidential_nonce(rec)

(* The record has the tag and the payload the tag selects of the other,    *)
(* and no other payload.                                                   *)
SamePayload(kind, rec, other) ==
    LET a == Scalar([kind |-> kind, rec |-> rec])
        b == Scalar([kind |-> kind, rec |-> other])
    IN /\ rec.type_ = other.type_
       /\ CASE rec.type_ = "Null" -> ~IsSome(a) /\ ~IsSome(rec.commitment)
            [] rec.type_ = "Explicit" -> a = b /\ ~IsSome(rec.commitment)
            [] rec.type_ = "Confidential" ->
                  rec.commitment = other.commitment /\ ~IsSome(a)

(* C21: decoding the record that encodes a confidential value, asset or    *)
(* nonce gives the value back, and encoding what an accepted record        *)
(* decodes to gives the tag and the selected payload of that record, with  *)
(* no other payload populated.                                             *)
C21_ConfidentialRoundTrip ==
    pc = "encoded" =>
        /\ Redecoded(info.kind, out[1]) = result
        /\ SamePayload(info.kind, out[1], info.rec)

----------------------------------------------------------------------------
(* Claims on the fields of a transaction record that are not consulted. *)

(* The record without its metadata and without the type hints of its       *)
(* output scripts.                                                         *)
WithoutHint(o) ==
    IF IsSome(o.script_pub_key)
    THEN [o EXCEPT !.script_pub_key = Some([Unwrap(@) EXCEPT !.type_ = None])]
    ELSE o
WithoutMetadata(t) ==
    [t EXCEPT !.txid = None, !.hash = None, !.size = None, !.weight = None,
              !.vsize = None,
              !.outputs = IF IsSome(@)
                          THEN Some([i \in 1..Len(Unwrap(@)) |-> WithoutHint(Unwrap(@)[i])])
                          ELSE @]
HasMetadata(t) ==
    \/ IsSome(t.txid) \/ IsSome(t.hash) \/ IsSome(t.size)
    \/ IsSome(t.weight) \/ IsSome(t.vsize)
    \/ IsSome(t.outputs)
          /\ \E i \in 1..Len(Unwrap(t.outputs)) :
                LET o == Unwrap(t.outputs)[i]
                IN IsSome(o.script_pub_key) /\ IsSome(Unwrap(o.script_pub_key).type_)
SameResult(a, b) == a.ok = b.ok /\ a.err = b.err /\ (a.ok => a.val = b.val)

(* C22: a transaction record is rejected or built exactly as the record    *)
(* that differs from it only in txid, hash, size, weight, vsize and the    *)
(* type hints of its output scripts: same failure or the same transaction. *)
C22_IgnoredMetadata ==
    TxTried => SameResult(result, create_transaction(WithoutMetadata(info)))

(* C22 witness: a record with all five metadata fields and an output with  *)
(* a type hint is built.                                                   *)
C22_Witness ==
    /\ TxTried /\ pc = "done"
    /\ IsSome(info.txid) /\ IsSome(info.hash) /\ IsSome(info.size)
    /\ IsSome(info.weight) /\ IsSome(info.vsize)
    /\ info.outputs = Some(<<HintedOutput>>)
    /\ WithoutMetadata(info) # info

----------------------------------------------------------------------------
(* Claims on the issuance of an input whose flag is false. *)

(* create_input has run on a record that says has_issuance = false and     *)
(* carries issuance data all the same.                                     *)
IssuanceDropped ==
    /\ pc \in {"done", "failed"}
    /\ info.has_issuance = Some(FALSE)
    /\ IsSome(info.asset_issuance)

(* C23: with has_issuance = false and issuance data supplied, the input is *)
(* built or refused exactly as the record without the data is, whatever    *)
(* the data lacks, and an input that is built has the default issuance.    *)
C23_IssuanceDroppedWhenFlagFalse ==
    IssuanceDropped =>
        /\ SameResult(result, create_input([info EXCEPT !.asset_issuance = None]))
        /\ result.ok
        /\ result.val.asset_issuance = AssetIssuance_default

(* C23 witness: issuance data with no entropy, dropped; the input is built *)
(* with the default issuance.                                              *)
C23_Witness ==
    /\ IssuanceDropped /\ pc = "done"
    /\ ~IsSome(Unwrap(info.asset_issuance).asset_entropy)
    /\ result.val.asset_issuance = AssetIssuance_default

----------------------------------------------------------------------------
(* Claims on the layout of the script built from pegout data. *)

(* The inner destination: the hex when given, else the address's script. *)
PegoutInner(o) ==
    LET s == Unwrap(o.pegout_data).script_pub_key
    IN IF IsSome(s.hex) THEN Unwrap(s.hex) ELSE Unwrap(s.address).spk

(* The script from position k on is one push per blob, in order, and       *)
(* nothing after them.                                                     *)
RECURSIVE PushesFrom(_, _, _)
PushesFrom(script, k, blobs) ==
    IF blobs = <<>> THEN k = Len(script) + 1
    ELSE /\ k + Len(Head(blobs)) <= Len(script)
         /\ script[k] = Len(Head(blobs))
         /\ SubSeq(script, k + 1, k + Len(Head(blobs))) = Head(blobs)
         /\ PushesFrom(script, k + 1 + Len(Head(blobs)), Tail(blobs))

(* The one output of the record takes its script from pegout data, and     *)
(* nothing but the inner destination can fail.                             *)
PegoutOnly ==
    /\ TxTried
    /\ info.version = Some(2) /\ info.locktime = Some(0)
    /\ info.inputs = Some(<<>>) /\ IsSome(info.outputs) /\ Len(Outs) = 1
    /\ FromPegout(Outs[1]) /\ IsSome(Outs[1].value) /\ IsSome(Outs[1].asset)
    /\ Outs[1].nonce = None /\ Outs[1].witness = None
    /\ PegoutValueMatches(Outs[1]) /\ PegoutAssetMatches(Outs[1])

(* C24: the script built from pegout data is OP_RETURN, the push of the    *)
(* genesis hash, the push of the inner destination script, then one push   *)
(* per extra data blob in the order of the record and nothing else; the    *)
(* inner destination is the hex, else fails as assembly, else is the       *)
(* address, and fails when none of them is given.                          *)
C24_PegoutScriptLayout ==
    /\ (TxTried /\ Built) =>
         \A i \in 1..Len(Outs) :
            FromPegout(Outs[i]) =>
                LET pd == Unwrap(Outs[i].pegout_data)
                    script == result.val.output[i].script_pubkey
                    inner == PegoutInner(Outs[i])
                IN /\ PegoutInnerResolves(Outs[i])
                   /\ script[1] = 106
                   /\ script[2] = 32
                   /\ SubSeq(script, 3, 34) = pd.genesis_hash.bytes
                   /\ script[35] = Len(inner)
                   /\ SubSeq(script, 36, 35 + Len(inner)) = inner
                   /\ PushesFrom(script, 36 + Len(inner), pd.extra_data)
    /\ PegoutOnly =>
         LET s == Unwrap(Outs[1].pegout_data).script_pub_key
         IN IF IsSome(s.hex) THEN Built
            ELSE IF IsSome(s.asm)
            THEN pc = "failed"
                 /\ result.err = "Decoding script assembly is not yet supported."
            ELSE IF IsSome(s.address) THEN Built
            ELSE pc = "failed" /\ result.err = "No scriptPubKey info provided."

(* C24 witness: a pegout to an address with two extra data blobs, built.   *)
C24_Witness ==
    /\ PegoutOnly /\ Built
    /\ Len(Unwrap(Outs[1].pegout_data).extra_data) = 2
    /\ ~IsSome(Unwrap(Outs[1].pegout_data).script_pub_key.hex)
    /\ PushesFrom(result.val.output[1].script_pubkey,
                  36 + Len(PegoutInner(Outs[1])),
                  Unwrap(Outs[1].pegout_data).extra_data)

----------------------------------------------------------------------------
(* Claims on the replace-style edits of an input. *)

(* An input was edited: the input as loaded and as the handler left it. *)
InputEdited == EditDone /\ OnlyInput
NewInput == pset.inputs[idx + 1]
OldInput == LoadedPset.inputs[idx + 1]
HexOf(arg) == Unwrap(hex_decode(Unwrap(arg)))

(* The keys a list of `<pubkey>:...` entries names, and the last entry of a *)
(* key.                                                                     *)
KeyOf(entry) == Unwrap(PublicKey_parse(entry[1]))
KeysOf(entries) == {KeyOf(entries[j]) : j \in 1..Len(entries)}
LastOf(entries, k) ==
    entries[CHOOSE j \in 1..Len(entries) :
                /\ KeyOf(entries[j]) = k
                /\ \A j2 \in (j + 1)..Len(entries) : KeyOf(entries[j2]) # k]
SigOf(pair) == Unwrap(hex_decode(pair[2]))
KeypathOf(triplet) ==
    <<Unwrap(hex_decode(triplet[2])), Unwrap(DerivationPath_parse(triplet[3]))>>

(* The map holds the supplied entries, the additive entries of the same    *)
(* invocation, and nothing else.                                           *)
SigsReplaced ==
    LET csv == Unwrap(info.partial_sigs)
    IN /\ DOMAIN NewInput.partial_sigs = KeysOf(csv) \cup KeysOf(info.partial_sigs_add)
       /\ \A k \in KeysOf(csv) : NewInput.partial_sigs[k] = SigOf(LastOf(csv, k))
KeypathsReplaced ==
    LET csv == Unwrap(info.hd_keypaths)
    IN /\ DOMAIN NewInput.bip32_derivation
             = KeysOf(csv) \cup KeysOf(info.hd_keypaths_add)
       /\ \A k \in KeysOf(csv) :
             NewInput.bip32_derivation[k] = KeypathOf(LastOf(csv, k))

(* C25: after a successful edit of an input, each replace-style field that *)
(* was given holds exactly the supplied value and nothing of what it held  *)
(* (a replaced map has the supplied keys, and those of additive entries of *)
(* the same invocation, only); each field that was not named, every other  *)
(* input, every output and the global section are unchanged.               *)
C25_ReplacePolicy ==
    InputEdited =>
        /\ NewInput.non_witness_utxo =
              IF IsSome(info.non_witness_utxo)
              THEN Some([tx |-> HexOf(info.non_witness_utxo)])
              ELSE OldInput.non_witness_utxo
        /\ NewInput.witness_utxo =
              IF IsSome(info.witness_utxo)
              THEN Some([txout |-> HexOf(info.witness_utxo)])
              ELSE OldInput.witness_utxo
        /\ NewInput.sighash_type =
              IF IsSome(info.sighash_type) THEN info.sighash_type
              ELSE OldInput.sighash_type
        /\ NewInput.redeem_script =
              IF IsSome(info.redeem_script) THEN Some(HexOf(info.redeem_script))
              ELSE OldInput.redeem_script
        /\ NewInput.witness_script =
              IF IsSome(info.witness_script) THEN Some(HexOf(info.witness_script))
              ELSE OldInput.witness_script
        /\ NewInput.final_script_sig =
              IF IsSome(info.final_script_sig) THEN Some(HexOf(info.final_script_sig))
              ELSE OldInput.final_script_sig
        /\ NewInput.final_script_witness =
              IF IsSome(info.final_script_witness)
              THEN LET vhex == Unwrap(info.final_script_witness)
                   IN Some([j \in 1..Len(vhex) |-> Unwrap(hex_decode(vhex[j]))])
              ELSE OldInput.final_script_witness
        /\ IF IsSome(info.partial_sigs) THEN SigsReplaced
           ELSE info.partial_sigs_add = <<>> =>
                   NewInput.partial_sigs = OldInput.partial_sigs
        /\ IF IsSome(info.hd_keypaths) THEN KeypathsReplaced
           ELSE info.hd_keypaths_add = <<>> =>
                   NewInput.bip32_derivation = OldInput.bip32_derivation
        /\ NewInput.previous_output_index = OldInput.previous_output_index
        /\ Len(pset.inputs) = Len(LoadedPset.inputs)
        /\ \A j \in 1..Len(pset.inputs) :
              j # idx + 1 => pset.inputs[j] = LoadedPset.inputs[j]
        /\ pset.outputs = LoadedPset.outputs
        /\ pset.global = LoadedPset.global

(* C25 witness: the partial sigs of an input that held one for pk_a were   *)
(* replaced by a list naming pk_b only; the entry of pk_a is gone.         *)
C25_Witness ==
    /\ InputEdited
    /\ IsSome(info.partial_sigs) /\ info.partial_sigs_add = <<>>
    /\ "pk_a" \in DOMAIN OldInput.partial_sigs
    /\ DOMAIN NewInput.partial_sigs = {"pk_b"}

----------------------------------------------------------------------------
(* Claims on the options an edit of an output does not read. *)

(* The invocation without the options that only edit_input reads. *)
WithoutInputOptions(m) ==
    [m EXCEPT !.non_witness_utxo = None, !.witness_utxo = None,
              !.partial_sigs = None, !.partial_sigs_add = <<>>,
              !.sighash_type = None, !.final_script_sig = None,
              !.final_script_witness = None]
GivesInputOptions == WithoutInputOptions(info) # info
GivesOutputOptions ==
    \/ IsSome(info.redeem_script) \/ IsSome(info.witness_script)
    \/ IsSome(info.hd_keypaths) \/ info.hd_keypaths_add # <<>>

(* edit_output has run, and nothing after it has failed. *)
OutputEdited ==
    /\ TargetTaken /\ OnlyOutput /\ IsSome(OutputIndex)
    /\ info.writable

(* C26: an edit of an output ends as the same invocation without the       *)
(* input-only options does, malformed or not: the same failure, or success *)
(* with the same PSET; the inputs are those of the loaded PSET, and when   *)
(* no option of an output is given the whole PSET is.                      *)
C26_UnusedEditFields ==
    OutputEdited =>
        LET e == edit_output(Unwrap(OutputIndex), WithoutInputOptions(info), LoadedPset)
        IN /\ e.res.ok <=> pc \in {"edited", "done"}
           /\ ~e.res.ok => result.err = e.res.err
           /\ pset = e.pset
           /\ pset.inputs = LoadedPset.inputs
           /\ (~GivesOutputOptions /\ Unwrap(OutputIndex) < Len(LoadedPset.outputs))
                 => pc \in {"edited", "done"} /\ pset = LoadedPset

(* C26 witness: an output was edited with a malformed sighash type and a   *)
(* malformed non-witness UTXO on the command line; the run went through    *)
(* and the PSET is the loaded one.                                         *)
C26_Witness ==
    /\ OutputEdited /\ pc = "done"
    /\ info.sighash_type = Some("all")
    /\ info.non_witness_utxo = Some(<<"zz">>)
    /\ info.partial_sigs_add # <<>>
    /\ ~GivesOutputOptions
    /\ pset = LoadedPset

----------------------------------------------------------------------------
(* Claims on the order of the replace and the additive block of a map. *)

(* Every entry parses. *)
SigsParse(entries) ==
    \A j \in 1..Len(entries) : parse_partial_sig_pair(entries[j]).ok
KeypathsParse(entries) ==
    \A j \in 1..Len(entries) : parse_hd_keypath_triplet(entries[j]).ok

(* An additive entry names a key of the replacement or of an earlier       *)
(* additive entry.                                                         *)
AddMeets(csv, adds) ==
    \E j \in 1..Len(adds) :
        \/ KeyOf(adds[j]) \in KeysOf(csv)
        \/ \E j2 \in 1..(j - 1) : KeyOf(adds[j2]) = KeyOf(adds[j])

(* edit_input has run on an input the PSET has, with both variants of the  *)
(* partial sigs option, all of whose entries parse.                        *)
SigsReplacedAndAdded ==
    /\ TargetTaken /\ OnlyInput /\ IsSome(InputIndex) /\ info.writable
    /\ Unwrap(InputIndex) < Len(LoadedPset.inputs)
    /\ ~IsSome(info.non_witness_utxo) /\ ~IsSome(info.witness_utxo)
    /\ IsSome(info.partial_sigs) /\ info.partial_sigs_add # <<>>
    /\ SigsParse(Unwrap(info.partial_sigs)) /\ SigsParse(info.partial_sigs_add)

(* The same of the HD keypaths of the edited input. *)
KeypathsReplacedAndAdded ==
    /\ TargetTaken /\ OnlyInput /\ IsSome(InputIndex) /\ info.writable
    /\ Unwrap(InputIndex) < Len(LoadedPset.inputs)
    /\ ~IsSome(info.non_witness_utxo) /\ ~IsSome(info.witness_utxo)
    /\ ~IsSome(info.partial_sigs) /\ info.partial_sigs_add = <<>>
    /\ ~IsSome(info.sighash_type)
    /\ ~IsSome(info.redeem_script) /\ ~IsSome(info.witness_script)
    /\ IsSome(info.hd_keypaths) /\ info.hd_keypaths_add # <<>>
    /\ KeypathsParse(Unwrap(info.hd_keypaths)) /\ KeypathsParse(info.hd_keypaths_add)

(* C27: with the replace and the additive variant of a map in one edit,    *)
(* the map is replaced first and the additive entries go into the replaced *)
(* map: the edit fails for a duplicate key exactly when an additive entry  *)
(* names a key of the replacement (or of an earlier additive entry),       *)
(* whatever keys the PSET held, and otherwise the map holds the additive   *)
(* entries next to the replacement.                                        *)
C27_ReplaceBeforeAdd ==
    /\ SigsReplacedAndAdded =>
          LET csv == Unwrap(info.partial_sigs)
              adds == info.partial_sigs_add
              sigs == pset.inputs[Unwrap(InputIndex) + 1].partial_sigs
          IN IF AddMeets(csv, adds) THEN DuplicateSig
             ELSE /\ ~DuplicateSig
                  /\ DOMAIN sigs = KeysOf(csv) \cup KeysOf(adds)
                  /\ \A k \in KeysOf(csv) : sigs[k] = SigOf(LastOf(csv, k))
                  /\ \A k \in KeysOf(adds) : sigs[k] = SigOf(LastOf(adds, k))
    /\ KeypathsReplacedAndAdded =>
          LET csv == Unwrap(info.hd_keypaths)
              adds == info.hd_keypaths_add
              paths == pset.inputs[Unwrap(InputIndex) + 1].bip32_derivation
          IN IF AddMeets(csv, adds) THEN DuplicateKeypath
             ELSE /\ pc \in {"edited", "done"}
                  /\ DOMAIN paths = KeysOf(csv) \cup KeysOf(adds)
                  /\ \A k \in KeysOf(csv) : paths[k] = KeypathOf(LastOf(csv, k))
                  /\ \A k \in KeysOf(adds) : paths[k] = KeypathOf(LastOf(adds, k))

(* C27 witness: the input held a partial sig of pk_a; the edit replaces    *)
(* the map by one of pk_b and adds pk_a, and goes through.                 *)
C27_Witness ==
    /\ SigsReplacedAndAdded /\ pc = "done"
    /\ "pk_a" \in DOMAIN LoadedPset.inputs[Unwrap(InputIndex) + 1].partial_sigs
    /\ KeysOf(Unwrap(info.partial_sigs)) = {"pk_b"}
    /\ KeysOf(info.partial_sigs_add) = {"pk_a"}
    /\ DOMAIN pset.inputs[Unwrap(InputIndex) + 1].partial_sigs = {"pk_a", "pk_b"}

----------------------------------------------------------------------------
(* Claims on the flags of an input. *)

(* The flag as create_input resolves it. *)
ResolvedFlag(flag, data) == IF IsSome(flag) THEN Unwrap(flag) ELSE IsSome(data)
(* No explicit pegin witness is given. *)
NoPeginWitness ==
    ~IsSome(info.witness) \/ ~IsSome(Unwrap(info.witness).pegin_witness)

(* C28: a built input has is_pegin as given, else as pegin data is given,  *)
(* and an issuance built from the issuance data when the issuance flag,    *)
(* given or inferred the same way, is true and the data is there; the      *)
(* witness, and whether the input is built at all, are the same whatever   *)
(* is_pegin says, so pegin data under is_pegin = false gives a six element *)
(* pegin witness on an input that is no pegin.                             *)
C28_ExplicitFlagsOverride ==
    /\ pc = "done" =>
          /\ result.val.is_pegin = ResolvedFlag(info.is_pegin, info.pegin_data)
          /\ result.val.asset_issuance =
                IF ResolvedFlag(info.has_issuance, info.asset_issuance)
                   /\ IsSome(info.asset_issuance)
                THEN create_asset_issuance(Unwrap(info.asset_issuance)).val
                ELSE AssetIssuance_default
          /\ (IsSome(info.pegin_data) /\ NoPeginWitness)
                => Len(result.val.witness.pegin_witness) = 6
    /\ pc \in {"done", "failed"} =>
          \A g \in Opt(BOOLEAN) :
             LET other == create_input([info EXCEPT !.is_pegin = g])
             IN /\ other.ok = result.ok
                /\ other.err = result.err
                /\ result.ok => other.val.witness = result.val.witness

(* C28 witness: is_pegin = false with pegin data and no explicit witness;  *)
(* the input is built, is no pegin, and has the six element pegin witness. *)
C28_Witness ==
    /\ pc = "done"
    /\ info.is_pegin = Some(FALSE) /\ IsSome(info.pegin_data) /\ ~IsSome(info.witness)
    /\ ~result.val.is_pegin
    /\ Len(result.val.witness.pegin_witness) = 6

----------------------------------------------------------------------------
(* Claims on what signing leaves alone. *)

(* The PSET after signing: the one held in memory, and once written the    *)
(* one the written bytes decode to.                                        *)
SignedPset ==
    IF pc = "done" THEN Unwrap(deserialize_pset(result.val)) ELSE pset
SignedInputAfter == SignedPset.inputs[SignIndex + 1]

(* C29: a successful exec_rawsign on input i changes nothing in the PSET   *)
(* but the partial-signature map of input i, in which only the entry of    *)
(* the derived pubkey is added or replaced: the global section, every      *)
(* output, every other input, and every other field and partial-signature  *)
(* entry of input i are in the written PSET as in the loaded one.          *)
C29_SigningFrame ==
    SignedOk =>
       /\ pc = "done" => IsSome(deserialize_pset(result.val))
       /\ SignedPset.global = LoadedPset.global
       /\ SignedPset.outputs = LoadedPset.outputs
       /\ Len(SignedPset.inputs) = Len(LoadedPset.inputs)
       /\ \A j \in 1..Len(LoadedPset.inputs) :
             j # SignIndex + 1 => SignedPset.inputs[j] = LoadedPset.inputs[j]
       /\ [SignedInputAfter EXCEPT !.partial_sigs = LoadedInput.partial_sigs]
             = LoadedInput
       /\ DOMAIN SignedInputAfter.partial_sigs \ {DerivedPubkey}
             = DOMAIN LoadedInput.partial_sigs \ {DerivedPubkey}
       /\ \A k \in DOMAIN LoadedInput.partial_sigs \ {DerivedPubkey} :
             SignedInputAfter.partial_sigs[k] = LoadedInput.partial_sigs[k]

(* C29 witness: a PSET of two inputs is signed and written; the signed     *)
(* input held an entry of another key, which it keeps next to the new one, *)
(* and the other input holds partial signatures of its own.                *)
C29_Witness ==
    /\ SignedOk /\ pc = "done"
    /\ Len(LoadedPset.inputs) = 2
    /\ DerivedPubkey \notin DOMAIN LoadedInput.partial_sigs
    /\ DOMAIN LoadedInput.partial_sigs # {}
    /\ DOMAIN SignedInputAfter.partial_sigs
          = DOMAIN LoadedInput.partial_sigs \cup {DerivedPubkey}
    /\ DOMAIN LoadedPset.inputs[2 - SignIndex].partial_sigs # {}

====
